---- MODULE Spec2Model ----
(***************************************************************************)
(* Foodgram backend: the recipe composer (RecipeCreateSerializer and the   *)
(* RecipeViewSet that dispatches to it), the deletion of a recipe, the     *)
(* favorite / shopping-cart membership actions, the shopping-list          *)
(* download, the subscriptions and the profiles of UsersViewSet, and the   *)
(* relational store they read and write.                                   *)
(*                                                                         *)
(* A request is handled by a worker in steps, one step per statement the   *)
(* ORM sends to the database: nothing in the views or serializers opens a  *)
(* transaction, so every statement commits on its own (Django's default    *)
(* autocommit) and other requests can run between two statements.  Only    *)
(* the cascading delete of a recipe is one transaction, which the ORM      *)
(* opens itself.                                                           *)
(***************************************************************************)
EXTENDS Integers, Sequences, FiniteSets, TLC

VARIABLES
    recipes,             \* Recipe rows: pk -> [author, cooking_time]
    recipe_tags,         \* rows of the Recipe.tags m2m table: <<recipe, tag>>
    recipe_ingredients,  \* RecipeIngredient rows: [recipe, ingredient, amount]
    favorites,           \* Favorite rows, counted per <<user, recipe>>
    shopping_cart,       \* ShoppingCart rows, counted per <<user, recipe>>
    follows,             \* Follow rows, counted per <<user, following>>
    next_id,             \* next primary key of the Recipe table
    reqs,                \* per worker: the request it handles and where it is
    last_added           \* history: per relation and <<user, recipe>>, whether
                         \* the last successful add / remove was an add

vars == <<recipes, recipe_tags, recipe_ingredients, favorites, shopping_cart,
          follows, next_id, reqs, last_added>>

-----------------------------------------------------------------------------
(* Bounds of the model. *)

\* Longest tag list / ingredient list a request carries.
MaxLen == 2
\* Recipe primary keys handed out before creation stops.
MaxRecipes == 2

-----------------------------------------------------------------------------
(* Program constants (foodgram.constants, imported by recipes/models.py).  *)
(* validate_amount compares with the literal 1; the validators' messages   *)
(* name the ceiling 32,000.                                                *)

MIN_AMOUNT == 1
MAX_AMOUNT == 32000

-----------------------------------------------------------------------------
(* Fixtures: the users, the two catalogs, the workers. *)

Anonymous == 0
Users == {1, 2}
Procs == {1, 2}

\* Primary keys of the Tag rows and of the Ingredient rows.
Tags == {1, 2}
Ingredients == {1, 2}
RecipeIds == 1..MaxRecipes

-----------------------------------------------------------------------------
(* Request payloads.  A JSON id arrives as a number or as a string of      *)
(* digits; a field of the payload is present (Some) or absent (None).      *)

None == <<>>
Some(v) == <<v>>

Num(n) == <<"int", n>>
Str(n) == <<"str", n>>

Lists(S) == UNION {[1..n -> S] : n \in 0..MaxLen}
Opt(S) == {None} \cup {Some(x) : x \in S}

\* IntegerField.to_internal_value and PrimaryKeyRelatedField's pk lookup:
\* int(str(data)), so 1 and "1" are the same id.
to_internal_value(raw) == raw[2]

IdsOf(rawlist) == [i \in 1..Len(rawlist) |-> to_internal_value(rawlist[i])]
LinesOf(rawlines) ==
    [i \in 1..Len(rawlines) |->
        [id |-> to_internal_value(rawlines[i].id), amount |-> rawlines[i].amount]]
Range(s) == {s[i] : i \in 1..Len(s)}

-----------------------------------------------------------------------------
(* Validation. *)

\* (mutant of validate_id: the existence check is skipped)
validate_id_unchecked(value) == TRUE

\* RecipeIngredientSerializer.validate_id
validate_id(value) == value \in Ingredients

\* (mutant of validate_amount: an off-by-one comparison, value <= 1)
validate_amount_off_by_one(value) == ~(value <= 1)

\* RecipeIngredientSerializer.validate_amount
validate_amount(value) == ~(value < 1)

\* Recipe.cooking_time's validators, as declared: two MinValueValidators.
cooking_time_validators ==
    << [kind |-> "min", limit |-> MIN_AMOUNT],
       [kind |-> "min", limit |-> MAX_AMOUNT] >>

\* The serializer field a ModelSerializer builds for cooking_time: the limit
\* of the first MinValueValidator becomes min_value and every MinValueValidator
\* is then dropped from the field's validators; no MaxValueValidator is
\* declared, so the field has no max_value from the model.
cooking_time_min_value ==
    LET mins == {i \in 1..Len(cooking_time_validators) :
                    cooking_time_validators[i].kind = "min"}
        first == CHOOSE i \in mins : \A j \in mins : i <= j
    IN  cooking_time_validators[first].limit

cooking_time_field_ok(data, partial) ==
    IF data.cooking_time = None THEN partial
    ELSE data.cooking_time[1] >= cooking_time_min_value

\* tags = PrimaryKeyRelatedField(queryset=Tag.objects.all(), many=True)
tags_field_ok(data, partial) ==
    IF data.tags = None THEN partial
    ELSE \A i \in 1..Len(data.tags[1]) :
            to_internal_value(data.tags[1][i]) \in Tags

\* ingredients = RecipeIngredientSerializer(many=True)
ingredients_field_ok(data, partial) ==
    IF data.ingredients = None THEN partial
    ELSE \A i \in 1..Len(data.ingredients[1]) :
            /\ validate_id(to_internal_value(data.ingredients[1][i].id))
            /\ validate_amount(data.ingredients[1][i].amount)

\* (mutant of validate: the two `if not ...` checks are missing, so an empty
\* list passes; an absent one still fails, on the iteration over None)
validate_without_empty_checks(initial_data) ==
    LET ingredients == initial_data.ingredients
        tags == initial_data.tags
    IN  IF ingredients = None \/ tags = None THEN FALSE
        ELSE /\ Len(ingredients[1]) =
                   Cardinality({ingredients[1][i].id :
                                   i \in 1..Len(ingredients[1])})
             /\ Len(tags[1]) = Cardinality({tags[1][i] : i \in 1..Len(tags[1])})

\* RecipeCreateSerializer.validate, on the raw initial_data: TRUE when it
\* returns data, FALSE when it raises ValidationError.
validate(initial_data) ==
    LET ingredients == initial_data.ingredients
        tags == initial_data.tags
    IN  IF ingredients = None THEN FALSE
        ELSE IF ingredients[1] = <<>> THEN FALSE
        ELSE LET ingredient_ids ==
                    [i \in 1..Len(ingredients[1]) |-> ingredients[1][i].id]
             IN  IF Len(ingredient_ids) # Cardinality(Range(ingredient_ids))
                 THEN FALSE
                 ELSE IF tags = None THEN FALSE
                 ELSE IF tags[1] = <<>> THEN FALSE
                 ELSE IF Len(tags[1]) # Cardinality(Range(tags[1]))
                 THEN FALSE
                 ELSE TRUE

\* RecipeCreateSerializer.is_valid: the fields first, then validate().
create_serializer_is_valid(data, partial) ==
    /\ tags_field_ok(data, partial)
    /\ ingredients_field_ok(data, partial)
    /\ cooking_time_field_ok(data, partial)
    /\ validate(data)

\* RecipeSerializer.is_valid (the serializer get_serializer_class returns for
\* the 'update' action): tags is read_only and ingredients a
\* SerializerMethodField, so only the scalar fields are read.
read_serializer_is_valid(data, partial) ==
    cooking_time_field_ok(data, partial)

-----------------------------------------------------------------------------
(* The store, as the ORM reads and writes it. *)

Pairs == Users \X RecipeIds

NoRow == [author |-> Anonymous, cooking_time |-> 0]
NoBody == [tags |-> {}, ingredients |-> {}, cooking_time |-> 0,
           author |-> Anonymous]
NoData == [tags |-> None, ingredients |-> None, cooking_time |-> None,
           author |-> None]
NoPre == [recipes |-> <<>>, recipe_tags |-> {}, recipe_ingredients |-> {}]

\* The viewer-relative fields of a response, the short recipe record, the
\* lines of the shopping list and the page of subscriptions, when the
\* response has none.
NoFlags == [is_favorited |-> FALSE, is_in_shopping_cart |-> FALSE,
            is_subscribed |-> FALSE]
NoShort == [id |-> 0, cooking_time |-> 0]
NoRel == [favorites |-> [x \in Pairs |-> 0],
          shopping_cart |-> [x \in Pairs |-> 0],
          follows |-> [x \in Users \X Users |-> 0]]
NoReport == [header |-> "", lines |-> <<>>]
NoRelated == [lines |-> {}, tags |-> {}, favorites |-> {},
              shopping_cart |-> {}]
NoProfile == [id |-> 0, is_subscribed |-> FALSE, recipes |-> <<>>,
              recipes_count |-> 0]
NeverAdded == [favorite |-> [x \in Pairs |-> FALSE],
               cart |-> [x \in Pairs |-> FALSE]]

IdleReq ==
    [op |-> "idle", user |-> Anonymous, pk |-> 0, data |-> NoData,
     pc |-> "idle", i |-> 0, response |-> "none", body |-> NoBody,
     inst |-> NoRow, pre |-> NoPre, flags |-> NoFlags, short |-> NoShort,
     report |-> NoReport, results |-> <<>>, rel |-> NoRel,
     recipes_limit |-> None, profile |-> NoProfile, profiles |-> <<>>,
     collected |-> NoRelated]

\* The tables a composer request can write, as they are when it arrives
\* (kept with the request to state what the request changed).
Snapshot ==
    [recipes |-> recipes, recipe_tags |-> recipe_tags,
     recipe_ingredients |-> recipe_ingredients]

\* Recipe.tags.all() and RecipeIngredient.objects.filter(recipe=obj)
tags_of(tagrows, pk) == {r[2] : r \in {x \in tagrows : x[1] = pk}}
lines_of(linerows, pk) ==
    {<<r.ingredient, r.amount>> : r \in {x \in linerows : x.recipe = pk}}

\* RecipeSerializer(instance).data: the scalar fields of the instance in
\* memory, the tags and get_ingredients read from the tables.
to_representation(instance, pk, tagrows, linerows) ==
    [tags |-> tags_of(tagrows, pk),
     ingredients |-> lines_of(linerows, pk),
     cooking_time |-> instance.cooking_time,
     author |-> instance.author]

\* ShortRecipeSerializer(recipe).data: ('id', 'name', 'image',
\* 'cooking_time') of the instance in memory.
ShortRecipeSerializer(instance, pk) ==
    [id |-> pk, cooking_time |-> instance.cooking_time]

\* UniqueConstraint(fields=['recipe', 'ingredient'],
\*                  name='unique_recipe_ingredient')
unique_recipe_ingredient(linerows, recipe, ingredient) ==
    ~ \E r \in linerows : r.recipe = recipe /\ r.ingredient = ingredient

\* UniqueConstraint(fields=['user', 'recipe']) of Favorite and ShoppingCart
unique_favorite(rows, user, recipe) == rows[<<user, recipe>>] = 0
unique_shopping_cart(rows, user, recipe) == rows[<<user, recipe>>] = 0

\* A check that never finds the row.
exists_never(rows, user, recipe) == FALSE

\* Favorite.objects.filter(user=..., recipe=...).exists(), and the cart's
exists(rows, user, recipe) ==
    <<user, recipe>> \in DOMAIN rows /\ rows[<<user, recipe>>] > 0

\* A delete that filters by the user only.
delete_all_of_user(rows, user, recipe) ==
    [x \in DOMAIN rows |-> IF x[1] = user THEN 0 ELSE rows[x]]

\* Favorite.objects.filter(user=..., recipe=...).delete(), and the cart's
delete(rows, user, recipe) == [rows EXCEPT ![<<user, recipe>>] = 0]

\* A flag that is true when any user holds the recipe.
get_is_favorited_any_viewer(user, pk) ==
    \E u \in Users : exists(favorites, u, pk)

\* RecipeSerializer.get_is_favorited
get_is_favorited(user, pk) ==
    IF user = Anonymous THEN FALSE ELSE exists(favorites, user, pk)

\* A cart flag that reads the Favorite table.
get_is_in_shopping_cart_from_favorites(user, pk) ==
    IF user = Anonymous THEN FALSE ELSE exists(favorites, user, pk)

\* RecipeSerializer.get_is_in_shopping_cart
get_is_in_shopping_cart(user, pk) ==
    IF user = Anonymous THEN FALSE ELSE exists(shopping_cart, user, pk)

\* CustomUserSerializer.get_is_subscribed
get_is_subscribed(user, obj) ==
    IF user = Anonymous THEN FALSE ELSE exists(follows, user, obj)

\* The viewer-relative fields of RecipeSerializer(instance).data for the
\* request's user: the two flags and is_subscribed of the nested author.
viewer_fields(user, instance, pk) ==
    [is_favorited |-> get_is_favorited(user, pk),
     is_in_shopping_cart |-> get_is_in_shopping_cart(user, pk),
     is_subscribed |-> get_is_subscribed(user, instance.author)]

Finished(r, response, body) ==
    [r EXCEPT !.pc = "done", !.response = response, !.body = body]

Arrived(op, user, pk, data) ==
    [IdleReq EXCEPT !.op = op, !.user = user, !.pk = pk, !.data = data]

\* The membership and follow tables, as they are when a request about them
\* arrives (kept with the request to state what the request changed).
Relations ==
    [favorites |-> favorites, shopping_cart |-> shopping_cart,
     follows |-> follows]

ArrivedSeeing(op, user, pk) ==
    [Arrived(op, user, pk, NoData) EXCEPT !.rel = Relations]

\* A worker takes a request when it holds none.
Ready(p) == reqs[p].pc = "idle"

UnchangedStore ==
    UNCHANGED <<recipes, recipe_tags, recipe_ingredients, favorites,
                shopping_cart, follows, next_id, last_added>>

-----------------------------------------------------------------------------
(* Initial states. *)

Init ==
    /\ recipes = <<>>
    /\ recipe_tags = {}
    /\ recipe_ingredients = {}
    /\ favorites = [x \in Pairs |-> 0]
    /\ shopping_cart = [x \in Pairs |-> 0]
    /\ follows = [x \in Users \X Users |-> 0]
    /\ next_id = 1
    /\ reqs = [p \in Procs |-> IdleReq]
    /\ last_added = NeverAdded

-----------------------------------------------------------------------------
(* RecipeViewSet: the requests.  The step that takes a request runs the    *)
(* permission check, get_object and serializer.is_valid; they write        *)
(* nothing.                                                                *)

\* POST /recipes/ (CreateModelMixin.create with RecipeCreateSerializer)
CreateRecipe(p, user, data) ==
    /\ Ready(p)
    /\ next_id <= MaxRecipes
    /\ LET r == [Arrived("create", user, 0, data) EXCEPT !.pre = Snapshot]
       IN  reqs' = [reqs EXCEPT ![p] =
              IF user = Anonymous
              THEN Finished(r, "Unauthorized", NoBody)
              ELSE IF ~create_serializer_is_valid(data, FALSE)
              THEN Finished(r, "ValidationError", NoBody)
              ELSE [r EXCEPT !.pc = "create_recipe"]]
    /\ UnchangedStore

\* A PATCH that saves the payload's cooking time before it validates.
PartialUpdateRecipe_saving_first(p, user, pk, data) ==
    /\ Ready(p)
    /\ pk \in DOMAIN recipes
    /\ data.cooking_time # None
    /\ recipes' = [recipes EXCEPT ![pk].cooking_time = data.cooking_time[1]]
    /\ LET r == [Arrived("partial_update", user, pk, data)
                    EXCEPT !.pre = Snapshot]
       IN  reqs' = [reqs EXCEPT ![p] =
              IF ~create_serializer_is_valid(data, TRUE)
              THEN Finished(r, "ValidationError", NoBody)
              ELSE [r EXCEPT !.pc = "save", !.inst = recipes'[pk]]]
    /\ UNCHANGED <<recipe_tags, recipe_ingredients, favorites, shopping_cart,
                   follows, next_id, last_added>>

\* PATCH /recipes/{pk}/ (UpdateModelMixin.partial_update with
\* RecipeCreateSerializer, partial=True)
PartialUpdateRecipe(p, user, pk, data) ==
    /\ Ready(p)
    /\ LET r == [Arrived("partial_update", user, pk, data)
                    EXCEPT !.pre = Snapshot]
       IN  reqs' = [reqs EXCEPT ![p] =
              IF user = Anonymous
              THEN Finished(r, "Unauthorized", NoBody)
              ELSE IF pk \notin DOMAIN recipes
              THEN Finished(r, "NotFound", NoBody)
              ELSE IF ~create_serializer_is_valid(data, TRUE)
              THEN Finished(r, "ValidationError", NoBody)
              ELSE [r EXCEPT !.pc = "save", !.inst = recipes[pk]]]
    /\ UnchangedStore

\* PUT /recipes/{pk}/ (UpdateModelMixin.update; get_serializer_class
\* returns RecipeSerializer for the 'update' action)
UpdateRecipe(p, user, pk, data) ==
    /\ Ready(p)
    /\ LET r == [Arrived("update", user, pk, data) EXCEPT !.pre = Snapshot]
       IN  reqs' = [reqs EXCEPT ![p] =
              IF user = Anonymous
              THEN Finished(r, "Unauthorized", NoBody)
              ELSE IF pk \notin DOMAIN recipes
              THEN Finished(r, "NotFound", NoBody)
              ELSE IF ~read_serializer_is_valid(data, FALSE)
              THEN Finished(r, "ValidationError", NoBody)
              ELSE [r EXCEPT !.pc = "save", !.inst = recipes[pk]]]
    /\ UnchangedStore

\* GET /recipes/{pk}/ (RetrieveModelMixin.retrieve with RecipeSerializer)
RetrieveRecipe(p, user, pk) ==
    /\ Ready(p)
    /\ LET r == Arrived("retrieve", user, pk, NoData)
       IN  reqs' = [reqs EXCEPT ![p] =
              IF pk \notin DOMAIN recipes
              THEN Finished(r, "NotFound", NoBody)
              ELSE [Finished(r, "OK",
                      to_representation(recipes[pk], pk, recipe_tags,
                                        recipe_ingredients))
                    EXCEPT !.flags = viewer_fields(user, recipes[pk], pk)]]
    /\ UnchangedStore

-----------------------------------------------------------------------------
(* RecipeCreateSerializer.create and .update, statement by statement. *)

\* A loop that is left before its first pass.
loop_pc_without_passes(i, ingredients_data) == "render"

\* `for ingredient_data in ingredients_data:` the next pass, or the end of
\* the loop, after which the serializer returns the instance.
loop_pc(i, ingredients_data) ==
    IF i <= Len(ingredients_data) THEN "create_line" ELSE "render"

\* create: Recipe.objects.create(author=request.user, **validated_data)
InsertRecipe(p) ==
    LET r == reqs[p]
        row == [author |-> r.user, cooking_time |-> r.data.cooking_time[1]]
    IN  /\ r.pc = "create_recipe"
        /\ recipes' = (next_id :> row) @@ recipes
        /\ next_id' = next_id + 1
        /\ reqs' = [reqs EXCEPT ![p] =
               [r EXCEPT !.pk = next_id, !.inst = row, !.pc = "set_tags"]]
        /\ UNCHANGED <<recipe_tags, recipe_ingredients, favorites,
                       shopping_cart, follows, last_added>>

\* A serializer whose author field is writable: the payload's author, when
\* it carries one, is saved.
author_from_payload(instance, data) ==
    IF data.author = None THEN instance.author ELSE data.author[1]

\* author = PrimaryKeyRelatedField(read_only=True), read_only_fields =
\* ('author',), and CustomUserSerializer(read_only=True) in RecipeSerializer:
\* the payload's author is not in validated_data; the instance keeps its own.
validated_author(instance, data) == instance.author

\* update: instance = super().update(instance, validated_data), which sets
\* the validated scalar fields on the loaded instance and saves it.  With
\* RecipeSerializer (PUT) this is the whole update.
SaveInstance(p) ==
    LET r == reqs[p]
        row == [author |-> validated_author(r.inst, r.data),
                cooking_time |-> IF r.data.cooking_time = None
                                 THEN r.inst.cooking_time
                                 ELSE r.data.cooking_time[1]]
    IN  /\ r.pc = "save"
        /\ recipes' = (r.pk :> row) @@ recipes
        /\ reqs' = [reqs EXCEPT ![p] =
               [r EXCEPT !.inst = row,
                         !.pc = IF r.op = "update" THEN "render"
                                ELSE "set_tags"]]
        /\ UNCHANGED <<recipe_tags, recipe_ingredients, favorites,
                       shopping_cart, follows, next_id, last_added>>

\* recipe.tags.set(tags) / instance.tags.set(tags)
SetTags(p) ==
    LET r == reqs[p]
        tags == Range(IdsOf(r.data.tags[1]))
    IN  /\ r.pc = "set_tags"
        /\ IF r.pk \in DOMAIN recipes
           THEN /\ recipe_tags' = {x \in recipe_tags : x[1] # r.pk}
                                      \cup {<<r.pk, t>> : t \in tags}
                /\ reqs' = [reqs EXCEPT ![p] =
                       [r EXCEPT !.i = 1,
                                 !.pc = IF r.op = "create"
                                        THEN loop_pc(1, r.data.ingredients[1])
                                        ELSE "delete_lines"]]
           ELSE /\ recipe_tags' = recipe_tags
                /\ reqs' = [reqs EXCEPT ![p] =
                       Finished(r, "StorageError", NoBody)]
        /\ UNCHANGED <<recipes, recipe_ingredients, favorites,
                       shopping_cart, follows, next_id, last_added>>

\* update: instance.recipe_ingredients.all().delete()
DeleteLines(p) ==
    LET r == reqs[p]
    IN  /\ r.pc = "delete_lines"
        /\ recipe_ingredients' =
               {x \in recipe_ingredients : x.recipe # r.pk}
        /\ reqs' = [reqs EXCEPT ![p] =
               [r EXCEPT !.pc = loop_pc(1, r.data.ingredients[1])]]
        /\ UNCHANGED <<recipes, recipe_tags, favorites, shopping_cart,
                       follows, next_id, last_added>>

\* One pass of `for ingredient_data in ingredients_data:
\* RecipeIngredient.objects.create(...)`.  The insert raises IntegrityError
\* when unique_recipe_ingredient or a foreign key (recipe, ingredient) is
\* violated; the serializer does not catch it.
CreateLine(p) ==
    LET r == reqs[p]
        ingredients_data == LinesOf(r.data.ingredients[1])
        ingredient_data == ingredients_data[r.i]
        row == [recipe |-> r.pk, ingredient |-> ingredient_data.id,
                amount |-> ingredient_data.amount]
    IN  /\ r.pc = "create_line"
        /\ IF /\ r.pk \in DOMAIN recipes
              /\ ingredient_data.id \in Ingredients
              /\ unique_recipe_ingredient(recipe_ingredients, r.pk,
                                          ingredient_data.id)
           THEN /\ recipe_ingredients' = recipe_ingredients \cup {row}
                /\ reqs' = [reqs EXCEPT ![p] =
                       [r EXCEPT !.i = r.i + 1,
                                 !.pc = loop_pc(r.i + 1, ingredients_data)]]
           ELSE /\ recipe_ingredients' = recipe_ingredients
                /\ reqs' = [reqs EXCEPT ![p] =
                       Finished(r, "StorageError", NoBody)]
        /\ UNCHANGED <<recipes, recipe_tags, favorites, shopping_cart,
                       follows, next_id, last_added>>

\* The response: serializer.data, which to_representation renders with
\* RecipeSerializer from the instance and the tables.
Render(p) ==
    LET r == reqs[p]
    IN  /\ r.pc = "render"
        /\ reqs' = [reqs EXCEPT ![p] =
               [Finished(r, IF r.op = "create" THEN "Created" ELSE "OK",
                         to_representation(r.inst, r.pk, recipe_tags,
                                           recipe_ingredients))
                   EXCEPT !.flags = viewer_fields(r.user, r.inst, r.pk)]]
        /\ UnchangedStore

\* The response is sent; the worker is free for the next request.
Respond(p) ==
    /\ reqs[p].pc = "done"
    /\ reqs' = [reqs EXCEPT ![p] = IdleReq]
    /\ UnchangedStore

ComposerStep(p) ==
    \/ InsertRecipe(p)
    \/ SaveInstance(p)
    \/ SetTags(p)
    \/ DeleteLines(p)
    \/ CreateLine(p)
    \/ Render(p)

-----------------------------------------------------------------------------
(* RecipeViewSet.destroy (DestroyModelMixin): get_object, then             *)
(* instance.delete(), which collects the rows that refer to the recipe     *)
(* through a ForeignKey with on_delete=CASCADE and deletes them with the   *)
(* recipe in one transaction.  The database refuses the delete when a row  *)
(* that was not collected refers to the recipe.                            *)

\* The rows that refer to a recipe: its lines, its tag rows, and the users
\* of its favorite and cart rows.
related(pk) ==
    [lines |-> {x \in recipe_ingredients : x.recipe = pk},
     tags |-> {x \in recipe_tags : x[1] = pk},
     favorites |-> {u \in Users : exists(favorites, u, pk)},
     shopping_cart |-> {u \in Users : exists(shopping_cart, u, pk)}]

\* on_delete=models.CASCADE of RecipeIngredient.recipe
cascade_lines(linerows, pk) == {x \in linerows : x.recipe # pk}

\* The rows of Recipe.tags' table, deleted with the recipe
cascade_tags(tagrows, pk) == {x \in tagrows : x[1] # pk}

\* A collector that leaves the rows that refer to the recipe.
cascade_rows_kept(rows, pk) == rows

\* on_delete=models.CASCADE of Favorite.recipe and ShoppingCart.recipe
cascade_rows(rows, pk) ==
    [x \in DOMAIN rows |-> IF x[2] = pk THEN 0 ELSE rows[x]]

\* DELETE /recipes/{pk}/: IsAuthenticatedOrReadOnly, then get_object
DestroyRecipe(p, user, pk) ==
    /\ Ready(p)
    /\ LET r == [ArrivedSeeing("destroy", user, pk) EXCEPT !.pre = Snapshot]
       IN  reqs' = [reqs EXCEPT ![p] =
              IF user = Anonymous
              THEN Finished(r, "Unauthorized", NoBody)
              ELSE IF pk \notin DOMAIN recipes
              THEN Finished(r, "NotFound", NoBody)
              ELSE [r EXCEPT !.pc = "collect", !.inst = recipes[pk]]]
    /\ UnchangedStore

\* perform_destroy, instance.delete(): the related rows are collected
CollectRelated(p) ==
    LET r == reqs[p]
    IN  /\ r.pc = "collect"
        /\ reqs' = [reqs EXCEPT ![p] =
               [r EXCEPT !.collected = related(r.pk),
                         !.pc = "perform_destroy"]]
        /\ UnchangedStore

\* perform_destroy, instance.delete(): the collected rows and the recipe
\* are deleted and the call is answered 204; a row that came after the
\* collection makes the delete fail as a whole (IntegrityError, not caught).
PerformDestroy(p) ==
    LET r == reqs[p]
        now == related(r.pk)
    IN  /\ r.pc = "perform_destroy"
        /\ IF /\ now.lines \subseteq r.collected.lines
              /\ now.tags \subseteq r.collected.tags
              /\ now.favorites \subseteq r.collected.favorites
              /\ now.shopping_cart \subseteq r.collected.shopping_cart
           THEN /\ recipes' = [k \in DOMAIN recipes \ {r.pk} |-> recipes[k]]
                /\ recipe_tags' = cascade_tags(recipe_tags, r.pk)
                /\ recipe_ingredients' =
                       cascade_lines(recipe_ingredients, r.pk)
                /\ favorites' = cascade_rows(favorites, r.pk)
                /\ shopping_cart' = cascade_rows(shopping_cart, r.pk)
                /\ last_added' =
                       [favorite |->
                           [x \in Pairs |->
                               x[2] # r.pk /\ last_added.favorite[x]],
                        cart |->
                           [x \in Pairs |->
                               x[2] # r.pk /\ last_added.cart[x]]]
                /\ reqs' = [reqs EXCEPT ![p] =
                       Finished(r, "NoContent", NoBody)]
           ELSE /\ reqs' = [reqs EXCEPT ![p] =
                       Finished(r, "StorageError", NoBody)]
                /\ UNCHANGED <<recipes, recipe_tags, recipe_ingredients,
                               favorites, shopping_cart, last_added>>
        /\ UNCHANGED <<follows, next_id>>

DestroyStep(p) ==
    \/ CollectRelated(p)
    \/ PerformDestroy(p)

-----------------------------------------------------------------------------
(* RecipeViewSet.favorite and RecipeViewSet.shopping_cart, POST. *)

\* favorite, POST: get_object_or_404, then the exists() check
FavoritePost(p, user, pk) ==
    /\ Ready(p)
    /\ LET r == ArrivedSeeing("favorite_post", user, pk)
       IN  reqs' = [reqs EXCEPT ![p] =
              IF user = Anonymous
              THEN Finished(r, "Unauthorized", NoBody)
              ELSE IF pk \notin DOMAIN recipes
              THEN Finished(r, "NotFound", NoBody)
              ELSE IF exists(favorites, user, pk)
              THEN Finished(r, "AlreadyExists", NoBody)
              ELSE [r EXCEPT !.pc = "favorite_create",
                             !.inst = recipes[pk]]]
    /\ UnchangedStore

\* favorite, POST: Favorite.objects.create(user=request.user, recipe=recipe)
\* and the 201 response; an IntegrityError of the insert is not caught.
FavoriteCreate(p) ==
    LET r == reqs[p]
    IN  /\ r.pc = "favorite_create"
        /\ IF /\ r.pk \in DOMAIN recipes
              /\ unique_favorite(favorites, r.user, r.pk)
           THEN /\ favorites' = [favorites EXCEPT ![<<r.user, r.pk>>] = @ + 1]
                /\ reqs' = [reqs EXCEPT ![p] =
                       [Finished(r, "Created", NoBody) EXCEPT
                           !.short = ShortRecipeSerializer(r.inst, r.pk)]]
                /\ last_added' = [last_added EXCEPT
                                     !.favorite[<<r.user, r.pk>>] = TRUE]
           ELSE /\ favorites' = favorites
                /\ reqs' = [reqs EXCEPT ![p] =
                       Finished(r, "StorageError", NoBody)]
                /\ last_added' = last_added
        /\ UNCHANGED <<recipes, recipe_tags, recipe_ingredients,
                       shopping_cart, follows, next_id>>

\* shopping_cart, POST: get_object_or_404, then the exists() check
ShoppingCartPost(p, user, pk) ==
    /\ Ready(p)
    /\ LET r == ArrivedSeeing("shopping_cart_post", user, pk)
       IN  reqs' = [reqs EXCEPT ![p] =
              IF user = Anonymous
              THEN Finished(r, "Unauthorized", NoBody)
              ELSE IF pk \notin DOMAIN recipes
              THEN Finished(r, "NotFound", NoBody)
              ELSE IF exists(shopping_cart, user, pk)
              THEN Finished(r, "AlreadyExists", NoBody)
              ELSE [r EXCEPT !.pc = "shopping_cart_create",
                             !.inst = recipes[pk]]]
    /\ UnchangedStore

\* shopping_cart, POST: ShoppingCart.objects.create(...) and the 201
\* response; an IntegrityError of the insert is not caught.
ShoppingCartCreate(p) ==
    LET r == reqs[p]
    IN  /\ r.pc = "shopping_cart_create"
        /\ IF /\ r.pk \in DOMAIN recipes
              /\ unique_shopping_cart(shopping_cart, r.user, r.pk)
           THEN /\ shopping_cart' =
                       [shopping_cart EXCEPT ![<<r.user, r.pk>>] = @ + 1]
                /\ reqs' = [reqs EXCEPT ![p] =
                       [Finished(r, "Created", NoBody) EXCEPT
                           !.short = ShortRecipeSerializer(r.inst, r.pk)]]
                /\ last_added' = [last_added EXCEPT
                                     !.cart[<<r.user, r.pk>>] = TRUE]
           ELSE /\ shopping_cart' = shopping_cart
                /\ reqs' = [reqs EXCEPT ![p] =
                       Finished(r, "StorageError", NoBody)]
                /\ last_added' = last_added
        /\ UNCHANGED <<recipes, recipe_tags, recipe_ingredients, favorites,
                       follows, next_id>>

-----------------------------------------------------------------------------
(* RecipeViewSet.favorite and RecipeViewSet.shopping_cart, GET and DELETE. *)

\* favorite, GET: {'is_favorited': Favorite...exists()}
FavoriteGet(p, user, pk) ==
    /\ Ready(p)
    /\ LET r == ArrivedSeeing("favorite_get", user, pk)
       IN  reqs' = [reqs EXCEPT ![p] =
              IF user = Anonymous
              THEN Finished(r, "Unauthorized", NoBody)
              ELSE IF pk \notin DOMAIN recipes
              THEN Finished(r, "NotFound", NoBody)
              ELSE [Finished(r, "OK", NoBody) EXCEPT
                       !.flags.is_favorited = exists(favorites, user, pk)]]
    /\ UnchangedStore

\* shopping_cart, GET: {'is_in_shopping_cart': ShoppingCart...exists()}
ShoppingCartGet(p, user, pk) ==
    /\ Ready(p)
    /\ LET r == ArrivedSeeing("shopping_cart_get", user, pk)
       IN  reqs' = [reqs EXCEPT ![p] =
              IF user = Anonymous
              THEN Finished(r, "Unauthorized", NoBody)
              ELSE IF pk \notin DOMAIN recipes
              THEN Finished(r, "NotFound", NoBody)
              ELSE [Finished(r, "OK", NoBody) EXCEPT
                       !.flags.is_in_shopping_cart =
                           exists(shopping_cart, user, pk)]]
    /\ UnchangedStore

\* favorite, DELETE: get_object_or_404, then the exists() check; an absent
\* pair is answered 400 with {'errors': ...}
FavoriteDelete(p, user, pk) ==
    /\ Ready(p)
    /\ LET r == ArrivedSeeing("favorite_delete", user, pk)
       IN  reqs' = [reqs EXCEPT ![p] =
              IF user = Anonymous
              THEN Finished(r, "Unauthorized", NoBody)
              ELSE IF pk \notin DOMAIN recipes
              THEN Finished(r, "NotFound", NoBody)
              ELSE IF ~exists(favorites, user, pk)
              THEN Finished(r, "NotInRelation", NoBody)
              ELSE [r EXCEPT !.pc = "favorite_destroy"]]
    /\ UnchangedStore

\* favorite, DELETE: favorite.delete() and the 204 response
FavoriteDestroy(p) ==
    LET r == reqs[p]
    IN  /\ r.pc = "favorite_destroy"
        /\ favorites' = delete(favorites, r.user, r.pk)
        /\ reqs' = [reqs EXCEPT ![p] = Finished(r, "NoContent", NoBody)]
        /\ last_added' = [last_added EXCEPT
                             !.favorite[<<r.user, r.pk>>] = FALSE]
        /\ UNCHANGED <<recipes, recipe_tags, recipe_ingredients,
                       shopping_cart, follows, next_id>>

\* shopping_cart, DELETE: get_object_or_404, then the exists() check
ShoppingCartDelete(p, user, pk) ==
    /\ Ready(p)
    /\ LET r == ArrivedSeeing("shopping_cart_delete", user, pk)
       IN  reqs' = [reqs EXCEPT ![p] =
              IF user = Anonymous
              THEN Finished(r, "Unauthorized", NoBody)
              ELSE IF pk \notin DOMAIN recipes
              THEN Finished(r, "NotFound", NoBody)
              ELSE IF ~exists(shopping_cart, user, pk)
              THEN Finished(r, "NotInRelation", NoBody)
              ELSE [r EXCEPT !.pc = "shopping_cart_destroy"]]
    /\ UnchangedStore

\* shopping_cart, DELETE: cart.delete() and the 204 response
ShoppingCartDestroy(p) ==
    LET r == reqs[p]
    IN  /\ r.pc = "shopping_cart_destroy"
        /\ shopping_cart' = delete(shopping_cart, r.user, r.pk)
        /\ reqs' = [reqs EXCEPT ![p] = Finished(r, "NoContent", NoBody)]
        /\ last_added' = [last_added EXCEPT
                             !.cart[<<r.user, r.pk>>] = FALSE]
        /\ UNCHANGED <<recipes, recipe_tags, recipe_ingredients, favorites,
                       follows, next_id>>

MembershipStep(p) ==
    \/ FavoriteCreate(p)
    \/ FavoriteDestroy(p)
    \/ ShoppingCartCreate(p)
    \/ ShoppingCartDestroy(p)

-----------------------------------------------------------------------------
(* RecipeViewSet.download_shopping_cart: one aggregate query and the text  *)
(* built from its rows.                                                    *)

\* The Ingredient catalog: ('name', 'measurement_unit') of each row; the
\* constraint unique_ingredient keeps the pairs distinct.
ingredient__name(id) == "Salt"
ingredient__measurement_unit(id) == IF id = 1 THEN "g" ELSE "kg"

\* A filter that forgets the user: the lines of every recipe in any cart.
cart_lines_of_any_user(user) ==
    {[ingredient |-> x.ingredient, amount |-> x.amount, recipe |-> x.recipe,
      n |-> 1] :
        x \in {y \in recipe_ingredients :
                  \E u \in Users : exists(shopping_cart, u, y.recipe)}}

\* RecipeIngredient.objects.filter(recipe__in_shopping_cart__user=user): the
\* join gives each line once per ShoppingCart row of the user on its recipe.
cart_lines(user) ==
    {[ingredient |-> x.ingredient, amount |-> x.amount, recipe |-> x.recipe,
      n |-> shopping_cart[<<user, x.recipe>>]] :
        x \in {y \in recipe_ingredients :
                  exists(shopping_cart, user, y.recipe)}}

\* .values('ingredient__name', 'ingredient__measurement_unit'): the key a
\* joined row is grouped by.
group_key(x) ==
    <<ingredient__name(x.ingredient),
      ingredient__measurement_unit(x.ingredient)>>

RECURSIVE Sum(_)
\* Sum('amount') over the joined rows of one group
Sum(rows) ==
    IF rows = {} THEN 0
    ELSE LET x == CHOOSE y \in rows : TRUE
         IN  x.amount * x.n + Sum(rows \ {x})

\* An aggregate that keeps one line's amount per group.
total_amount_of_one_line(rows, key) ==
    LET x == CHOOSE y \in rows : group_key(y) = key
    IN  x.amount

\* .annotate(total_amount=Sum('amount')) for one group
total_amount(rows, key) == Sum({x \in rows : group_key(x) = key})

\* The rows of the aggregate query, and the line f"{name}: {amount} {unit}"
\* of each, written <<name, amount, unit>>.
shopping_list(user) ==
    LET rows == cart_lines(user)
    IN  {<<key[1], total_amount(rows, key), key[2]>> :
            key \in {group_key(x) : x \in rows}}

\* The orders in which a query without order_by can return its rows.
Orderings(S) ==
    {seq \in [1..Cardinality(S) -> S] : {seq[k] : k \in DOMAIN seq} = S}

\* GET /recipes/download_shopping_cart/: the content is the header line
\* (the Russian for "Shopping list:"), an empty line and the joined lines.
DownloadShoppingCart(p, user) ==
    /\ Ready(p)
    /\ LET r == [ArrivedSeeing("download_shopping_cart", user, 0)
                    EXCEPT !.pre = Snapshot]
       IN  IF user = Anonymous
           THEN reqs' = [reqs EXCEPT ![p] =
                    Finished(r, "Unauthorized", NoBody)]
           ELSE \E ingredients \in Orderings(shopping_list(user)) :
                  reqs' = [reqs EXCEPT ![p] =
                     [Finished(r, "OK", NoBody) EXCEPT
                         !.report = [header |-> "shopping list",
                                     lines |-> ingredients]]]
    /\ UnchangedStore

-----------------------------------------------------------------------------
(* UsersViewSet: subscribe, unsubscribe, subscriptions and the profile.    *)

\* A comparison that never finds the two users equal.
is_self_never(user, following) == FALSE

\* subscribe: user == following
is_self(user, following) == user = following

\* A check that looks for the row of the opposite direction.
is_following_reversed(rows, user, following) == rows[<<following, user>>] > 0

\* Follow.objects.filter(user=user, following=following).exists()
is_following(rows, user, following) == rows[<<user, following>>] > 0
\* A table without the constraint: every insert is accepted.
unique_follow_dropped(rows, user, following) == TRUE

\* UniqueConstraint(fields=['user', 'following'], name='unique_follow')
unique_follow(rows, user, following) == rows[<<user, following>>] = 0

\* A delete that removes the row of the opposite direction.
follow_delete_reversed(rows, user, following) ==
    [rows EXCEPT ![<<following, user>>] = 0]

\* Follow.objects.filter(user=user, following=following).delete()
follow_delete(rows, user, following) ==
    [rows EXCEPT ![<<user, following>>] = 0]

\* User.objects.filter(following__user=user): the users a Follow row of
\* `user` points to
following_of(rows, user) == {u \in Users : rows[<<user, u>>] > 0}

RECURSIVE order_by_id(_)
\* .order_by('id')
order_by_id(S) ==
    IF S = {} THEN <<>>
    ELSE LET least == CHOOSE x \in S : \A y \in S : x <= y
         IN  <<least>> \o order_by_id(S \ {least})

\* POST /users/{id}/subscribe/: get_object, the self check, the exists()
\* check
Subscribe(p, user, id) ==
    /\ Ready(p)
    /\ LET r == ArrivedSeeing("subscribe", user, id)
       IN  reqs' = [reqs EXCEPT ![p] =
              IF user = Anonymous
              THEN Finished(r, "Unauthorized", NoBody)
              ELSE IF id \notin Users
              THEN Finished(r, "NotFound", NoBody)
              ELSE IF is_self(user, id)
              THEN Finished(r, "SelfFollow", NoBody)
              ELSE IF is_following(follows, user, id)
              THEN Finished(r, "AlreadyFollowing", NoBody)
              ELSE [r EXCEPT !.pc = "follow_create"]]
    /\ UnchangedStore

\* subscribe: Follow.objects.create(user=user, following=following); an
\* IntegrityError of the insert is not caught.
FollowCreate(p) ==
    LET r == reqs[p]
    IN  /\ r.pc = "follow_create"
        /\ IF unique_follow(follows, r.user, r.pk)
           THEN /\ follows' = [follows EXCEPT ![<<r.user, r.pk>>] = @ + 1]
                /\ reqs' = [reqs EXCEPT ![p].pc = "follow_render"]
           ELSE /\ follows' = follows
                /\ reqs' = [reqs EXCEPT ![p] =
                       Finished(r, "StorageError", NoBody)]
        /\ UNCHANGED <<recipes, recipe_tags, recipe_ingredients, favorites,
                       shopping_cart, next_id, last_added>>

\* subscribe: CustomUserSerializer(following).data and the 201 response
FollowRender(p) ==
    LET r == reqs[p]
    IN  /\ r.pc = "follow_render"
        /\ reqs' = [reqs EXCEPT ![p] =
               [Finished(r, "Created", NoBody) EXCEPT
                   !.flags.is_subscribed = get_is_subscribed(r.user, r.pk)]]
        /\ UnchangedStore

\* DELETE /users/{id}/subscribe/: get_object, then the exists() check; an
\* absent row is answered 400 with {"errors": ...}
Unsubscribe(p, user, id) ==
    /\ Ready(p)
    /\ LET r == ArrivedSeeing("unsubscribe", user, id)
       IN  reqs' = [reqs EXCEPT ![p] =
              IF user = Anonymous
              THEN Finished(r, "Unauthorized", NoBody)
              ELSE IF id \notin Users
              THEN Finished(r, "NotFound", NoBody)
              ELSE IF ~is_following(follows, user, id)
              THEN Finished(r, "NotFollowing", NoBody)
              ELSE [r EXCEPT !.pc = "follow_delete"]]
    /\ UnchangedStore

\* unsubscribe: follow.delete() and the 204 response
FollowDelete(p) ==
    LET r == reqs[p]
    IN  /\ r.pc = "follow_delete"
        /\ follows' = follow_delete(follows, r.user, r.pk)
        /\ reqs' = [reqs EXCEPT ![p] = Finished(r, "NoContent", NoBody)]
        /\ UNCHANGED <<recipes, recipe_tags, recipe_ingredients, favorites,
                       shopping_cart, next_id, last_added>>

\* A query parameter's value is a string: Str(n) is the decimal text of the
\* integer n, Text(s) any other text, the empty one included.
Text(s) == <<"text", s>>

\* `if recipes_limit:` a string is true unless it is empty
truthy(value) == value # Text("")

\* int(recipes_limit): the integer of a decimal text, and ValueError (None
\* here) for any other text
int(value) == IF value[1] = "str" THEN Some(value[2]) ELSE None

RECURSIVE order_by_desc_id(_)
\* .order_by('-id')
order_by_desc_id(S) ==
    IF S = {} THEN <<>>
    ELSE LET greatest == CHOOSE x \in S : \A y \in S : x >= y
         IN  <<greatest>> \o order_by_desc_id(S \ {greatest})

\* obj.recipes: the recipes whose author is obj
recipes_of(obj) == {pk \in DOMAIN recipes : recipes[pk].author = obj}

\* CustomUserSerializer.get_recipes_count
get_recipes_count(obj) == Cardinality(recipes_of(obj))

\* A slice that ignores its limit.
slice_unlimited(queryset, n) == Some(queryset)

\* queryset[:n]: the first n rows, and an error (None here) for a negative
\* n, which a queryset does not support
slice(queryset, n) ==
    IF n < 0 THEN None
    ELSE Some(SubSeq(queryset, 1, IF n < Len(queryset) THEN n
                                  ELSE Len(queryset)))

\* A fallback that renders every recipe when the limit cannot be applied.
except_Exception_unlimited(queryset) == queryset

\* `except Exception: return []`
except_Exception(queryset) == <<>>

\* CustomUserSerializer.get_recipes: the short records of the user's
\* recipes, newest id first, cut to recipes_limit when the request has one
get_recipes(obj, recipes_limit) ==
    LET queryset == order_by_desc_id(recipes_of(obj))
        limited ==
            IF recipes_limit = None \/ ~truthy(recipes_limit[1])
            THEN Some(queryset)
            ELSE IF int(recipes_limit[1]) = None THEN None
            ELSE slice(queryset, int(recipes_limit[1])[1])
        rows == IF limited = None THEN except_Exception(queryset)
                ELSE limited[1]
    IN  [k \in 1..Len(rows) |-> ShortRecipeSerializer(recipes[rows[k]], rows[k])]

\* CustomUserSerializer(obj).data for the request's user: is_subscribed,
\* recipes and recipes_count
CustomUserSerializer(user, obj, recipes_limit) ==
    [id |-> obj,
     is_subscribed |-> get_is_subscribed(user, obj),
     recipes |-> get_recipes(obj, recipes_limit),
     recipes_count |-> get_recipes_count(obj)]

\* GET /users/subscriptions/?recipes_limit=...: the first page of the
\* followed users, each rendered with CustomUserSerializer
Subscriptions(p, user, recipes_limit) ==
    /\ Ready(p)
    /\ LET r == [ArrivedSeeing("subscriptions", user, 0)
                    EXCEPT !.recipes_limit = recipes_limit]
           page_obj == order_by_id(following_of(follows, user))
       IN  reqs' = [reqs EXCEPT ![p] =
              IF user = Anonymous
              THEN Finished(r, "Unauthorized", NoBody)
              ELSE [Finished(r, "OK", NoBody) EXCEPT
                       !.results = page_obj,
                       !.profiles =
                           [k \in 1..Len(page_obj) |->
                               CustomUserSerializer(user, page_obj[k],
                                                    recipes_limit)]]]
    /\ UnchangedStore

\* GET /users/{id}/?recipes_limit=...: CustomUserSerializer(user).data
RetrieveUser(p, user, id, recipes_limit) ==
    /\ Ready(p)
    /\ LET r == [ArrivedSeeing("retrieve_user", user, id)
                    EXCEPT !.recipes_limit = recipes_limit]
       IN  reqs' = [reqs EXCEPT ![p] =
              IF user = Anonymous
              THEN Finished(r, "Unauthorized", NoBody)
              ELSE IF id \notin Users
              THEN Finished(r, "NotFound", NoBody)
              ELSE [Finished(r, "OK", NoBody) EXCEPT
                       !.flags.is_subscribed = get_is_subscribed(user, id),
                       !.profile =
                           CustomUserSerializer(user, id, recipes_limit)]]
    /\ UnchangedStore

FollowStep(p) ==
    \/ FollowCreate(p)
    \/ FollowRender(p)
    \/ FollowDelete(p)

-----------------------------------------------------------------------------
(* Spec: one worker answers request after request, starting from the empty *)
(* store.  A payload varies its tag list with one fixed ingredient line,   *)
(* or its ingredient list with one fixed tag; the lists are up to MaxLen   *)
(* long, over the catalog ids, id 1 also written as the string "1", and    *)
(* the id 3 that is in neither catalog; or it is the valid payload with an *)
(* author field that names user 1 or user 2.                               *)

Line(rawid, amount) == [id |-> rawid, amount |-> amount]

WorkTagLists == Lists({Num(1), Num(2)}) \cup {<<Num(3)>>}
WorkLineLists ==
    Lists({Line(Num(1), 5), Line(Str(1), 5), Line(Num(2), 5)})
        \cup {<<Line(Num(3), 5)>>}
ValidData ==
    [tags |-> Some(<<Num(1)>>),
     ingredients |-> Some(<<Line(Num(1), 5)>>),
     cooking_time |-> Some(5),
     author |-> None]
WorkData ==
    {[ValidData EXCEPT !.tags = Some(l)] : l \in WorkTagLists}
        \cup {[ValidData EXCEPT !.ingredients = Some(l)] : l \in WorkLineLists}
        \cup {[ValidData EXCEPT !.author = Some(u)] : u \in Users}
WorkRequests == (Users \X WorkData) \cup {<<Anonymous, ValidData>>}

\* (Each request is taken by an idle worker: Ready is restated in front of
\* the quantifiers so that a busy worker's payloads are not enumerated.)
Next ==
    \/ /\ Ready(1)
       /\ \E rq \in WorkRequests : CreateRecipe(1, rq[1], rq[2])
    \/ /\ Ready(1)
       /\ \E rq \in WorkRequests, pk \in RecipeIds :
             PartialUpdateRecipe(1, rq[1], pk, rq[2])
    \/ /\ Ready(1)
       /\ \E rq \in WorkRequests, pk \in RecipeIds :
             UpdateRecipe(1, rq[1], pk, rq[2])
    \/ /\ Ready(1)
       /\ \E user \in Users \cup {Anonymous}, pk \in RecipeIds :
             RetrieveRecipe(1, user, pk)
    \/ ComposerStep(1)
    \/ Respond(1)

Spec == Init /\ [][Next]_vars

-----------------------------------------------------------------------------
(* SpecRequest: one composer request against a store that holds one       *)
(* recipe.  The payload's lists are up to MaxLen long over ids 1 (as a     *)
(* number and as a string), 2 and the unknown 3; amounts and cooking times *)
(* lie on and beside both limits; each field may be absent.  The payloads  *)
(* come in two families: any ingredient list beside valid tags and cooking *)
(* times, and any tag list and cooking time beside valid or absent         *)
(* ingredients.                                                            *)

RichIds == {Num(1), Str(1), Num(2), Num(3)}
RichAmounts == {MIN_AMOUNT - 1, MIN_AMOUNT, MAX_AMOUNT, MAX_AMOUNT + 1}
RichTags == {Some(<<Num(2)>>), Some(<<Num(2), Str(1)>>)}
RichLines ==
    {None, Some(<<Line(Num(1), MIN_AMOUNT)>>),
     Some(<<Line(Str(1), MIN_AMOUNT), Line(Num(2), MAX_AMOUNT)>>)}
RichData ==
    [tags : RichTags,
     ingredients : Opt(Lists([id : RichIds, amount : RichAmounts])),
     cooking_time : {Some(MIN_AMOUNT), Some(MAX_AMOUNT)},
     author : {None}]
    \cup [tags : Opt(Lists(RichIds)),
          ingredients : RichLines,
          cooking_time : Opt(RichAmounts),
          author : {None}]

\* The store after user 1 created a recipe with tag 1 and the lines
\* (1, 5), (2, 5) in the empty store.
InitSeeded ==
    /\ recipes = (1 :> [author |-> 1, cooking_time |-> 5])
    /\ recipe_tags = {<<1, 1>>}
    /\ recipe_ingredients =
           {[recipe |-> 1, ingredient |-> 1, amount |-> 5],
            [recipe |-> 1, ingredient |-> 2, amount |-> 5]}
    /\ favorites = [x \in Pairs |-> 0]
    /\ shopping_cart = [x \in Pairs |-> 0]
    /\ follows = [x \in Users \X Users |-> 0]
    /\ next_id = 2
    /\ reqs = [p \in Procs |-> IdleReq]
    /\ last_added = NeverAdded

NextRequest ==
    \/ /\ Ready(1)
       /\ \E user \in Users, data \in RichData : CreateRecipe(1, user, data)
    \/ /\ Ready(1)
       /\ \E user \in Users, data \in RichData :
             PartialUpdateRecipe(1, user, 1, data)
    \/ /\ Ready(1)
       /\ \E user \in Users, data \in RichData :
             UpdateRecipe(1, user, 1, data)
    \/ /\ Ready(1)
       /\ \E user \in Users \cup {Anonymous} : DestroyRecipe(1, user, 1)
    \/ ComposerStep(1)
    \/ DestroyStep(1)

SpecRequest == InitSeeded /\ [][NextRequest]_vars

-----------------------------------------------------------------------------
(* SpecConc: two workers, one request each, against the store that holds   *)
(* one recipe; their statements interleave freely.                         *)

ConcData ==
    {[tags |-> Some(<<Num(2)>>),
      ingredients |-> Some(<<Line(Num(1), 7)>>),
      cooking_time |-> Some(7),
      author |-> None],
     [tags |-> Some(<<Num(1), Num(2)>>),
      ingredients |-> Some(<<Line(Num(1), 9), Line(Num(2), 9)>>),
      cooking_time |-> Some(9),
      author |-> None]}

NextConc ==
    \E p \in Procs :
        \/ /\ Ready(p)
           /\ \E user \in Users, data \in ConcData :
                 CreateRecipe(p, user, data)
        \/ /\ Ready(p)
           /\ \E user \in Users, data \in ConcData :
                 PartialUpdateRecipe(p, user, 1, data)
        \/ /\ Ready(p)
           /\ \E user \in Users \cup {Anonymous} : RetrieveRecipe(p, user, 1)
        \/ /\ Ready(p)
           /\ \E user \in Users : FavoritePost(p, user, 1)
        \/ /\ Ready(p)
           /\ \E user \in Users : ShoppingCartPost(p, user, 1)
        \/ ComposerStep(p)
        \/ FavoriteCreate(p)
        \/ ShoppingCartCreate(p)

SpecConc == InitSeeded /\ [][NextConc]_vars

-----------------------------------------------------------------------------
(* SpecMember: one worker answers request after request against a store  *)
(* that holds two recipes of two authors; the requests are the membership  *)
(* actions, the reads that render the viewer's flags, the shopping-list    *)
(* download and the subscriptions.  Recipe 2 comes with any of three sets  *)
(* of ingredient lines; recipe and user ids one past the stored ones are   *)
(* asked for as well.                                                      *)

MemberLines ==
    {{[recipe |-> 2, ingredient |-> 1, amount |-> 3]},
     {[recipe |-> 2, ingredient |-> 2, amount |-> 4]},
     {[recipe |-> 2, ingredient |-> 1, amount |-> 3],
      [recipe |-> 2, ingredient |-> 2, amount |-> 4]}}

InitMember ==
    /\ recipes = <<[author |-> 1, cooking_time |-> 5],
                   [author |-> 2, cooking_time |-> 7]>>
    /\ recipe_tags = {<<1, 1>>, <<2, 2>>}
    /\ \E lines \in MemberLines :
          recipe_ingredients =
              {[recipe |-> 1, ingredient |-> 1, amount |-> 5],
               [recipe |-> 1, ingredient |-> 2, amount |-> 5]} \cup lines
    /\ favorites = [x \in Pairs |-> 0]
    /\ shopping_cart = [x \in Pairs |-> 0]
    /\ follows = [x \in Users \X Users |-> 0]
    /\ next_id = 3
    /\ reqs = [p \in Procs |-> IdleReq]
    /\ last_added = NeverAdded

Viewers == Users \cup {Anonymous}
AskedRecipeIds == RecipeIds \cup {MaxRecipes + 1}
AskedUserIds == Users \cup {3}

NextMember ==
    \/ /\ Ready(1)
       /\ \E user \in Viewers, pk \in AskedRecipeIds :
             FavoritePost(1, user, pk)
    \/ /\ Ready(1)
       /\ \E user \in Viewers, pk \in AskedRecipeIds :
             FavoriteGet(1, user, pk)
    \/ /\ Ready(1)
       /\ \E user \in Viewers, pk \in AskedRecipeIds :
             FavoriteDelete(1, user, pk)
    \/ /\ Ready(1)
       /\ \E user \in Viewers, pk \in AskedRecipeIds :
             ShoppingCartPost(1, user, pk)
    \/ /\ Ready(1)
       /\ \E user \in Viewers, pk \in AskedRecipeIds :
             ShoppingCartGet(1, user, pk)
    \/ /\ Ready(1)
       /\ \E user \in Viewers, pk \in AskedRecipeIds :
             ShoppingCartDelete(1, user, pk)
    \/ /\ Ready(1)
       /\ \E user \in Viewers, pk \in AskedRecipeIds :
             RetrieveRecipe(1, user, pk)
    \/ /\ Ready(1)
       /\ \E user \in Viewers : DownloadShoppingCart(1, user)
    \/ /\ Ready(1)
       /\ \E user \in Viewers, id \in AskedUserIds : Subscribe(1, user, id)
    \/ /\ Ready(1)
       /\ \E user \in Viewers, id \in AskedUserIds : Unsubscribe(1, user, id)
    \/ /\ Ready(1)
       /\ \E user \in Viewers, id \in AskedUserIds : RetrieveUser(1, user, id, None)
    \/ /\ Ready(1)
       /\ \E user \in Viewers : Subscriptions(1, user, None)
    \/ MembershipStep(1)
    \/ FollowStep(1)
    \/ Respond(1)

SpecMember == InitMember /\ [][NextMember]_vars

-----------------------------------------------------------------------------
(* SpecList: two workers, one request each, against the two recipes and    *)
(* any content of the carts: downloads of the shopping list, and cart      *)
(* additions and removals between them.                                    *)

InitList ==
    /\ recipes = <<[author |-> 1, cooking_time |-> 5],
                   [author |-> 2, cooking_time |-> 7]>>
    /\ recipe_tags = {<<1, 1>>, <<2, 2>>}
    /\ \E lines \in MemberLines :
          recipe_ingredients =
              {[recipe |-> 1, ingredient |-> 1, amount |-> 5],
               [recipe |-> 1, ingredient |-> 2, amount |-> 5]} \cup lines
    /\ favorites = [x \in Pairs |-> 0]
    /\ shopping_cart \in
           {c \in [Pairs -> {0, 1}] :
               \A x \in Pairs : c[x] = 1 => x[2] \in {1, 2}}
    /\ follows = [x \in Users \X Users |-> 0]
    /\ next_id = 3
    /\ reqs = [p \in Procs |-> IdleReq]
    /\ last_added = [NeverAdded EXCEPT
                        !.cart = [x \in Pairs |-> shopping_cart[x] = 1]]

NextList ==
    \E p \in Procs :
        \/ /\ Ready(p)
           /\ \E user \in Viewers : DownloadShoppingCart(p, user)
        \/ /\ Ready(p)
           /\ \E user \in Users, pk \in RecipeIds :
                 ShoppingCartPost(p, user, pk)
        \/ /\ Ready(p)
           /\ \E user \in Users, pk \in RecipeIds :
                 ShoppingCartDelete(p, user, pk)
        \/ ShoppingCartCreate(p)
        \/ ShoppingCartDestroy(p)

SpecList == InitList /\ [][NextList]_vars

-----------------------------------------------------------------------------
(* SpecRelations: two workers, one request each, against the store that    *)
(* holds one recipe and any content of the favorites, the carts and the    *)
(* subscriptions that sequential requests can leave.  The requests are the *)
(* additions to and removals from the favorites and the cart, subscribe    *)
(* and unsubscribe; their statements interleave freely.                    *)

InitRelations ==
    /\ recipes = (1 :> [author |-> 1, cooking_time |-> 5])
    /\ recipe_tags = {<<1, 1>>}
    /\ recipe_ingredients =
           {[recipe |-> 1, ingredient |-> 1, amount |-> 5],
            [recipe |-> 1, ingredient |-> 2, amount |-> 5]}
    /\ favorites \in
           {c \in [Pairs -> {0, 1}] : \A x \in Pairs : c[x] = 1 => x[2] = 1}
    /\ shopping_cart \in
           {c \in [Pairs -> {0, 1}] : \A x \in Pairs : c[x] = 1 => x[2] = 1}
    /\ follows \in
           {c \in [Users \X Users -> {0, 1}] :
               \A x \in Users \X Users : c[x] = 1 => x[1] # x[2]}
    /\ next_id = 2
    /\ reqs = [p \in Procs |-> IdleReq]
    /\ last_added = [favorite |-> [x \in Pairs |-> favorites[x] = 1],
                     cart |-> [x \in Pairs |-> shopping_cart[x] = 1]]

NextRelations ==
    \E p \in Procs :
        \/ /\ Ready(p)
           /\ \E user \in Users : FavoritePost(p, user, 1)
        \/ /\ Ready(p)
           /\ \E user \in Users : FavoriteDelete(p, user, 1)
        \/ /\ Ready(p)
           /\ \E user \in Users : ShoppingCartPost(p, user, 1)
        \/ /\ Ready(p)
           /\ \E user \in Users : ShoppingCartDelete(p, user, 1)
        \/ /\ Ready(p)
           /\ \E user \in Users, id \in Users : Subscribe(p, user, id)
        \/ /\ Ready(p)
           /\ \E user \in Users, id \in Users : Unsubscribe(p, user, id)
        \/ MembershipStep(p)
        \/ FollowStep(p)

SpecRelations == InitRelations /\ [][NextRelations]_vars

-----------------------------------------------------------------------------
(* SpecProfile: one worker answers request after request, starting from    *)
(* the empty store: recipes are created and deleted, users subscribe, and  *)
(* profiles are read, alone and as the list of subscriptions, with a       *)
(* recipes_limit that is absent, empty, a text that is no integer, a       *)
(* negative integer, or an integer from 0 to one past MaxRecipes.          *)

ProfileLimits ==
    {None, Some(Text("")), Some(Text("abc")), Some(Str(0 - 1))}
        \cup {Some(Str(n)) : n \in 0..(MaxRecipes + 1)}

NextProfile ==
    \/ /\ Ready(1)
       /\ \E user \in Users : CreateRecipe(1, user, ValidData)
    \/ /\ Ready(1)
       /\ \E user \in Users, pk \in RecipeIds : DestroyRecipe(1, user, pk)
    \/ /\ Ready(1)
       /\ \E user \in Users, id \in Users : Subscribe(1, user, id)
    \/ /\ Ready(1)
       /\ \E user \in Users, id \in Users, recipes_limit \in ProfileLimits :
             RetrieveUser(1, user, id, recipes_limit)
    \/ /\ Ready(1)
       /\ \E user \in Users, recipes_limit \in ProfileLimits :
             Subscriptions(1, user, recipes_limit)
    \/ InsertRecipe(1)
    \/ SetTags(1)
    \/ CreateLine(1)
    \/ Render(1)
    \/ DestroyStep(1)
    \/ FollowCreate(1)
    \/ FollowRender(1)
    \/ Respond(1)

SpecProfile == Init /\ [][NextProfile]_vars

-----------------------------------------------------------------------------
(* SpecDelete: two workers, one request each, against the two recipes and  *)
(* any content of the carts: a recipe is deleted while it is added to the  *)
(* favorites or a cart, updated, or while a shopping list is downloaded.   *)

DeleteData ==
    [tags |-> Some(<<Num(2)>>),
     ingredients |-> Some(<<Line(Num(1), 7)>>),
     cooking_time |-> Some(7),
     author |-> None]

NextDelete ==
    \E p \in Procs :
        \/ /\ Ready(p)
           /\ \E user \in Viewers, pk \in AskedRecipeIds :
                 DestroyRecipe(p, user, pk)
        \/ /\ Ready(p)
           /\ \E user \in Users, pk \in RecipeIds : FavoritePost(p, user, pk)
        \/ /\ Ready(p)
           /\ \E user \in Users, pk \in RecipeIds :
                 ShoppingCartPost(p, user, pk)
        \/ /\ Ready(p)
           /\ \E user \in Users : DownloadShoppingCart(p, user)
        \/ /\ Ready(p)
           /\ \E user \in Users, pk \in RecipeIds :
                 PartialUpdateRecipe(p, user, pk, DeleteData)
        \/ DestroyStep(p)
        \/ FavoriteCreate(p)
        \/ ShoppingCartCreate(p)
        \/ SaveInstance(p)
        \/ SetTags(p)
        \/ DeleteLines(p)
        \/ CreateLine(p)
        \/ Render(p)

SpecDelete == InitList /\ [][NextDelete]_vars

-----------------------------------------------------------------------------
(* SpecIsolation: two workers answer request after request, starting with *)
(* empty favorites and carts: additions of recipe 1 to and its removals    *)
(* from the favorites and the carts, and downloads of the shopping list,   *)
(* so that a download is held by one worker while the other worker changes *)
(* a membership and downloads again.                                       *)

NextIsolation ==
    \E p \in Procs :
        \/ /\ Ready(p)
           /\ \E user \in Users : DownloadShoppingCart(p, user)
        \/ /\ Ready(p)
           /\ \E user \in Users : FavoritePost(p, user, 1)
        \/ /\ Ready(p)
           /\ \E user \in Users : FavoriteDelete(p, user, 1)
        \/ /\ Ready(p)
           /\ \E user \in Users : ShoppingCartPost(p, user, 1)
        \/ /\ Ready(p)
           /\ \E user \in Users : ShoppingCartDelete(p, user, 1)
        \/ MembershipStep(p)
        \/ Respond(p)

SpecIsolation == InitMember /\ [][NextIsolation]_vars

-----------------------------------------------------------------------------
(* What the claims speak about. *)

\* The tag ids and the (ingredient, amount) lines a payload names.
InputTags(data) == Range(IdsOf(data.tags[1]))
InputLines(data) ==
    {<<l.id, l.amount>> : l \in Range(LinesOf(data.ingredients[1]))}

\* A list of raw ids names some id twice.
NamesTwice(rawids) ==
    \E i, j \in 1..Len(rawids) :
        i # j /\ to_internal_value(rawids[i]) = to_internal_value(rawids[j])
RawLineIds(data) ==
    [i \in 1..Len(data.ingredients[1]) |-> data.ingredients[1][i].id]

MissingList(field) == field = None \/ field = Some(<<>>)

\* The payload is valid by the specification's rules for createRecipe.
SpecValid(data) ==
    /\ ~MissingList(data.tags)
    /\ ~NamesTwice(data.tags[1])
    /\ InputTags(data) \subseteq Tags
    /\ ~MissingList(data.ingredients)
    /\ ~NamesTwice(RawLineIds(data))
    /\ \A l \in InputLines(data) :
          l[1] \in Ingredients /\ l[2] \in MIN_AMOUNT..MAX_AMOUNT
    /\ data.cooking_time # None
    /\ data.cooking_time[1] \in MIN_AMOUNT..MAX_AMOUNT

\* What GET /recipes/{pk}/ returns in the current state.
ReadNow(pk) ==
    to_representation(recipes[pk], pk, recipe_tags, recipe_ingredients)

\* A finished createRecipe / updateRecipe call that reached the composer
\* (RecipeCreateSerializer): the caller is authenticated, the recipe exists.
ComposerCall(r) ==
    /\ r.pc = "done"
    /\ r.op \in {"create", "partial_update"}
    /\ r.response \notin {"Unauthorized", "NotFound"}

InFlight(r) == r.pc \notin {"idle", "done"}

-----------------------------------------------------------------------------
(* C1 *)

\* C1: every createRecipe call of an authenticated user whose payload is
\* valid by the specification's rules runs to the end without an error (each
\* of its statements can be executed), answers Created, and the created
\* recipe then reads back, in the response and in a later GET, with exactly
\* the payload's set of (ingredient, amount) lines and set of tags.
C1_CreateReadsBack ==
    \A p \in Procs :
        LET r == reqs[p]
        IN  (r.op = "create" /\ r.user # Anonymous /\ SpecValid(r.data)) =>
                /\ r.pc # "done" => ENABLED ComposerStep(p)
                /\ r.pc = "done" =>
                      /\ r.response = "Created"
                      /\ r.pk \in DOMAIN recipes
                      /\ r.body.ingredients = InputLines(r.data)
                      /\ r.body.tags = InputTags(r.data)
                      /\ ReadNow(r.pk).ingredients = InputLines(r.data)
                      /\ ReadNow(r.pk).tags = InputTags(r.data)

\* C1 witness: a created recipe with two lines, one id written as a string,
\* amounts on both limits, the cooking time on the upper limit.
C1_Witness ==
    \E p \in Procs :
        LET r == reqs[p]
        IN  /\ r.op = "create" /\ r.pc = "done" /\ r.response = "Created"
            /\ SpecValid(r.data)
            /\ r.data.ingredients =
                   Some(<<Line(Str(1), MIN_AMOUNT), Line(Num(2), MAX_AMOUNT)>>)
            /\ r.data.tags = Some(<<Num(2), Str(1)>>)
            /\ r.data.cooking_time = Some(MAX_AMOUNT)
            /\ ReadNow(r.pk).ingredients = {<<1, MIN_AMOUNT>>, <<2, MAX_AMOUNT>>}

-----------------------------------------------------------------------------
(* C2 *)

\* C2: after every successful update of a recipe, by PATCH (partial_update)
\* or by PUT (update), with a tag list and an ingredient list in the
\* request, the recipe's line set is exactly the request's line set and its
\* tag set exactly the request's tag set.
C2_UpdateReplaces ==
    \A p \in Procs :
        LET r == reqs[p]
        IN  (/\ r.pc = "done"
             /\ r.op \in {"partial_update", "update"}
             /\ r.response = "OK"
             /\ r.data.tags # None
             /\ r.data.ingredients # None) =>
                /\ lines_of(recipe_ingredients, r.pk) = InputLines(r.data)
                /\ tags_of(recipe_tags, r.pk) = InputTags(r.data)

-----------------------------------------------------------------------------
(* C3 *)

\* C3: a createRecipe or updateRecipe call whose ingredient lines name the
\* same ingredient id twice, or whose tag ids name the same tag twice, is
\* answered with ValidationError.
C3_DuplicateRejected ==
    \A p \in Procs :
        LET r == reqs[p]
        IN  (/\ ComposerCall(r)
             /\ \/ r.data.ingredients # None /\ NamesTwice(RawLineIds(r.data))
                \/ r.data.tags # None /\ NamesTwice(r.data.tags[1])) =>
                r.response = "ValidationError"

-----------------------------------------------------------------------------
(* C4 *)

-----------------------------------------------------------------------------
(* C5 *)

\* C5: a createRecipe or updateRecipe call with a line whose amount is below
\* MIN_AMOUNT or above MAX_AMOUNT is answered with ValidationError, and no
\* stored RecipeIngredient row has an amount outside [MIN_AMOUNT, MAX_AMOUNT].
C5_AmountWithinBounds ==
    /\ \A p \in Procs :
          LET r == reqs[p]
          IN  (/\ ComposerCall(r)
               /\ r.data.ingredients # None
               /\ \E l \in InputLines(r.data) :
                     l[2] \notin MIN_AMOUNT..MAX_AMOUNT) =>
                  r.response = "ValidationError"
    /\ \A row \in recipe_ingredients : row.amount \in MIN_AMOUNT..MAX_AMOUNT

-----------------------------------------------------------------------------
(* C6 *)

\* C6: a createRecipe or updateRecipe call whose cooking time is below
\* MIN_COOKING_TIME or above MAX_COOKING_TIME (the code's MIN_AMOUNT and
\* MAX_AMOUNT) is answered with ValidationError, and every stored recipe's
\* cooking_time lies inside the limits.
C6_CookingTimeWithinBounds ==
    /\ \A p \in Procs :
          LET r == reqs[p]
          IN  (/\ ComposerCall(r)
               /\ r.data.cooking_time # None
               /\ r.data.cooking_time[1] \notin MIN_AMOUNT..MAX_AMOUNT) =>
                  r.response = "ValidationError"
    /\ \A pk \in DOMAIN recipes :
          recipes[pk].cooking_time \in MIN_AMOUNT..MAX_AMOUNT

-----------------------------------------------------------------------------
(* C7 *)

-----------------------------------------------------------------------------
(* C8 *)

\* C8: createRecipe is all-or-nothing: when a createRecipe call ends with
\* anything but Created, the Recipe table, the tag associations and the
\* RecipeIngredient table are as they were when the call arrived.
C8_CreateAllOrNothing ==
    \A p \in Procs :
        LET r == reqs[p]
        IN  (r.op = "create" /\ r.pc = "done" /\ r.response # "Created") =>
                Snapshot = r.pre

-----------------------------------------------------------------------------
(* C9 *)

\* The recipe as a read returned it before the update arrived, and as the
\* update's payload asks it to be.
OldView(w) ==
    to_representation(w.pre.recipes[w.pk], w.pk, w.pre.recipe_tags,
                      w.pre.recipe_ingredients)
NewView(w) ==
    [tags |-> InputTags(w.data),
     ingredients |-> InputLines(w.data),
     cooking_time |-> IF w.data.cooking_time = None
                      THEN w.pre.recipes[w.pk].cooking_time
                      ELSE w.data.cooking_time[1],
     author |-> w.pre.recipes[w.pk].author]

\* C9: a read of recipe R answered while an updateRecipe of R is under way
\* returns R's complete old tags and lines or R's complete new tags and
\* lines.
C9_UpdateIsAtomic ==
    \A p, q \in Procs :
        LET w == reqs[p]
            rd == reqs[q]
        IN  (/\ p # q
             /\ w.op = "partial_update" /\ InFlight(w)
             /\ rd.op = "retrieve" /\ rd.pc = "done" /\ rd.response = "OK"
             /\ rd.pk = w.pk) =>
                \E v \in {OldView(w), NewView(w)} :
                    /\ rd.body.tags = v.tags
                    /\ rd.body.ingredients = v.ingredients

-----------------------------------------------------------------------------
(* C10 *)

\* C10: when both workers have answered an addMembership call for the same
\* relation, user and recipe, issued while the pair was absent, exactly one
\* row for the pair exists, one caller got Created and the other
\* AlreadyExists.
C10_ConcurrentAddConflicts ==
    \A p, q \in Procs :
        LET a == reqs[p]
            b == reqs[q]
            rows == IF a.op = "favorite_post" THEN favorites
                    ELSE shopping_cart
        IN  (/\ p # q
             /\ a.op \in {"favorite_post", "shopping_cart_post"}
             /\ b.op = a.op /\ b.user = a.user /\ b.pk = a.pk
             /\ a.pc = "done" /\ b.pc = "done") =>
                /\ rows[<<a.user, a.pk>>] = 1
                /\ {a.response, b.response} = {"Created", "AlreadyExists"}

-----------------------------------------------------------------------------
(* C11 *)

\* The relation a membership request is about, in a record of the tables.
RelationOf(r, tables) ==
    IF r.op \in {"favorite_post", "favorite_get", "favorite_delete"}
    THEN tables.favorites ELSE tables.shopping_cart

\* The tables with the request's pair of its relation set to n rows.
WithPair(r, tables, n) ==
    IF r.op \in {"favorite_post", "favorite_get", "favorite_delete"}
    THEN [tables EXCEPT !.favorites[<<r.user, r.pk>>] = n]
    ELSE [tables EXCEPT !.shopping_cart[<<r.user, r.pk>>] = n]

\* C11: an answered addMembership call (favorite or cart) of an
\* authenticated user: for a recipe that does not exist it answered NotFound
\* and no table changed; for a pair that was absent it answered Created
\* with the short recipe record and the tables differ from those at arrival
\* by exactly that pair; for a pair that was present it answered
\* AlreadyExists and no table changed.
C11_AddMembershipContract ==
    \A p \in Procs :
        LET r == reqs[p]
        IN  (/\ r.op \in {"favorite_post", "shopping_cart_post"}
             /\ r.pc = "done"
             /\ r.user # Anonymous) =>
                IF r.pk \notin DOMAIN recipes
                THEN r.response = "NotFound" /\ Relations = r.rel
                ELSE IF RelationOf(r, r.rel)[<<r.user, r.pk>>] = 0
                THEN /\ r.response = "Created"
                     /\ Relations = WithPair(r, r.rel, 1)
                     /\ r.short = ShortRecipeSerializer(recipes[r.pk], r.pk)
                ELSE /\ r.response = "AlreadyExists"
                     /\ Relations = r.rel

\* C11 witness: user 2 put recipe 1 into the cart while user 1 holds it in
\* the cart and user 2 holds it as a favorite.
C11_Witness ==
    \E p \in Procs :
        LET r == reqs[p]
        IN  /\ r.op = "shopping_cart_post" /\ r.pc = "done"
            /\ r.user = 2 /\ r.pk = 1
            /\ r.response = "Created"
            /\ shopping_cart[<<1, 1>>] = 1
            /\ shopping_cart[<<2, 1>>] = 1
            /\ favorites[<<2, 1>>] = 1
            /\ r.rel.shopping_cart[<<2, 1>>] = 0

-----------------------------------------------------------------------------
(* C12 *)

\* C12: an answered removeMembership call (favorite or cart) of an
\* authenticated user: for a pair that was present it answered success (204)
\* and the tables differ from those at arrival by exactly that pair, now
\* absent; for a pair that was absent it answered with an error (404 when
\* the recipe does not exist, else the 400 that says the recipe is not in
\* the relation) and no table changed.
C12_RemoveMembershipContract ==
    \A p \in Procs :
        LET r == reqs[p]
        IN  (/\ r.op \in {"favorite_delete", "shopping_cart_delete"}
             /\ r.pc = "done"
             /\ r.user # Anonymous) =>
                IF r.pk \notin DOMAIN recipes
                THEN r.response = "NotFound" /\ Relations = r.rel
                ELSE IF RelationOf(r, r.rel)[<<r.user, r.pk>>] > 0
                THEN /\ r.response = "NoContent"
                     /\ Relations = WithPair(r, r.rel, 0)
                ELSE /\ r.response = "NotInRelation"
                     /\ Relations = r.rel

\* C12 witness: user 1 removed recipe 2 from the favorites and still holds
\* recipe 1 there; user 2 still holds recipe 2.
C12_Witness ==
    \E p \in Procs :
        LET r == reqs[p]
        IN  /\ r.op = "favorite_delete" /\ r.pc = "done"
            /\ r.user = 1 /\ r.pk = 2
            /\ r.response = "NoContent"
            /\ r.rel.favorites[<<1, 2>>] = 1
            /\ favorites[<<1, 2>>] = 0
            /\ favorites[<<1, 1>>] = 1
            /\ favorites[<<2, 2>>] = 1

-----------------------------------------------------------------------------
(* C13 *)

\* C13: in every state, for every user and stored recipe, the favorite
\* query and the is_favorited flag are true exactly when the user's last
\* successful add / remove of that favorite was an add, and the same for the
\* cart and is_in_shopping_cart; and every answered membership GET and
\* every answered recipe read of an authenticated user carries these values.
C13_FlagsFollowLastOperation ==
    /\ \A u \in Users : \A pk \in DOMAIN recipes \cap RecipeIds :
          /\ exists(favorites, u, pk) = last_added.favorite[<<u, pk>>]
          /\ get_is_favorited(u, pk) = last_added.favorite[<<u, pk>>]
          /\ exists(shopping_cart, u, pk) = last_added.cart[<<u, pk>>]
          /\ get_is_in_shopping_cart(u, pk) = last_added.cart[<<u, pk>>]
    /\ \A p \in Procs :
          LET r == reqs[p]
              key == <<r.user, r.pk>>
          IN  (r.pc = "done" /\ r.response = "OK" /\ r.user # Anonymous) =>
                 /\ r.op = "favorite_get" =>
                       r.flags.is_favorited = last_added.favorite[key]
                 /\ r.op = "shopping_cart_get" =>
                       r.flags.is_in_shopping_cart = last_added.cart[key]
                 /\ r.op = "retrieve" =>
                       /\ r.flags.is_favorited = last_added.favorite[key]
                       /\ r.flags.is_in_shopping_cart = last_added.cart[key]

\* C13 witness: user 2 reads recipe 1 of user 1 after favoriting it and
\* after putting it into the cart and taking it out again.
C13_Witness ==
    \E p \in Procs :
        LET r == reqs[p]
        IN  /\ r.op = "retrieve" /\ r.pc = "done" /\ r.response = "OK"
            /\ r.user = 2 /\ r.pk = 1
            /\ recipes[1].author = 1
            /\ r.flags.is_favorited
            /\ ~r.flags.is_in_shopping_cart
            /\ last_added.favorite[<<2, 1>>]
            /\ ~last_added.cart[<<2, 1>>]
            /\ last_added.cart[<<1, 1>>]

\* C13 witness of the removal: user 2 has just unfavorited recipe 1, which
\* was a favorite when the call arrived, and the flag is false again.
C13_WitnessUnfavorited ==
    \E p \in Procs :
        LET r == reqs[p]
        IN  /\ r.op = "favorite_delete" /\ r.pc = "done"
            /\ r.response = "NoContent"
            /\ r.user = 2 /\ r.pk = 1
            /\ r.rel.favorites[<<2, 1>>] = 1
            /\ ~get_is_favorited(2, 1)

-----------------------------------------------------------------------------
(* C14 *)

\* C14: for the anonymous viewer the two recipe flags and is_subscribed
\* compute to false in every state, whatever rows are stored, and every
\* recipe rendered for a request without an authenticated user carries
\* is_favorited = false, is_in_shopping_cart = false and an author profile
\* with is_subscribed = false.
C14_AnonymousFlagsFalse ==
    /\ \A pk \in DOMAIN recipes :
          /\ ~get_is_favorited(Anonymous, pk)
          /\ ~get_is_in_shopping_cart(Anonymous, pk)
          /\ viewer_fields(Anonymous, recipes[pk], pk) = NoFlags
    /\ \A u \in Users : ~get_is_subscribed(Anonymous, u)
    /\ \A p \in Procs :
          LET r == reqs[p]
          IN  (r.pc = "done" /\ r.user = Anonymous) => r.flags = NoFlags

\* C14 witness: an anonymous read of recipe 1 was answered while both users
\* hold recipe 1 as a favorite and in the cart and user 2 follows its
\* author.
C14_Witness ==
    \E p \in Procs :
        LET r == reqs[p]
        IN  /\ r.op = "retrieve" /\ r.pc = "done" /\ r.response = "OK"
            /\ r.user = Anonymous /\ r.pk = 1
            /\ \A u \in Users :
                  favorites[<<u, 1>>] = 1 /\ shopping_cart[<<u, 1>>] = 1
            /\ follows[<<2, recipes[1].author>>] = 1
            /\ r.flags = NoFlags

-----------------------------------------------------------------------------
(* C15 *)

\* The ingredient lines of the recipes in the user's cart.
LinesInCart(user) ==
    {x \in recipe_ingredients : shopping_cart[<<user, x.recipe>>] > 0}

\* The (name, unit) pair of a line's ingredient.
NameUnit(x) ==
    <<ingredient__name(x.ingredient),
      ingredient__measurement_unit(x.ingredient)>>

RECURSIVE AmountsOf(_)
\* The sum of the amounts of a set of lines.
AmountsOf(lines) ==
    IF lines = {} THEN 0
    ELSE LET x == CHOOSE y \in lines : TRUE
         IN  x.amount + AmountsOf(lines \ {x})

\* C15: the report of an answered buildShoppingList call has, for every
\* (name, unit) pair among the lines of the recipes in the user's cart,
\* exactly one line, which carries the sum of the amounts of those lines,
\* and it has no other line.
C15_ShoppingListAggregates ==
    \A p \in Procs :
        LET r == reqs[p]
            lines == LinesInCart(r.user)
            pairs == {NameUnit(x) : x \in lines}
            entries == r.report.lines
        IN  (/\ r.op = "download_shopping_cart" /\ r.pc = "done"
             /\ r.user # Anonymous) =>
                /\ r.response = "OK"
                /\ Len(entries) = Cardinality(pairs)
                /\ \A k \in DOMAIN entries :
                      <<entries[k][1], entries[k][3]>> \in pairs
                /\ \A pair \in pairs :
                      \E k \in DOMAIN entries :
                          entries[k] =
                             <<pair[1],
                               AmountsOf({x \in lines : NameUnit(x) = pair}),
                               pair[2]>>

\* C15 witness: user 1 holds both recipes in the cart, recipe 1 with salt in
\* g (5) and in kg (5), recipe 2 with salt in g (3); the report has
\* "Salt: 8 g" and "Salt: 5 kg".
C15_Witness ==
    \E p \in Procs :
        LET r == reqs[p]
        IN  /\ r.op = "download_shopping_cart" /\ r.pc = "done"
            /\ r.user = 1
            /\ shopping_cart[<<1, 1>>] = 1 /\ shopping_cart[<<1, 2>>] = 1
            /\ shopping_cart[<<2, 1>>] = 1
            /\ lines_of(recipe_ingredients, 2) = {<<1, 3>>}
            /\ {r.report.lines[k] : k \in DOMAIN r.report.lines} =
                   {<<"Salt", 8, "g">>, <<"Salt", 5, "kg">>}

-----------------------------------------------------------------------------
(* C16 *)

\* C16: the report of an answered buildShoppingList call of a user with no
\* recipe in the cart is the header alone, without an ingredient line.
C16_EmptyCartHeaderOnly ==
    \A p \in Procs :
        LET r == reqs[p]
        IN  (/\ r.op = "download_shopping_cart" /\ r.pc = "done"
             /\ r.user # Anonymous
             /\ \A pk \in RecipeIds : shopping_cart[<<r.user, pk>>] = 0) =>
                /\ r.response = "OK"
                /\ r.report = [header |-> "shopping list", lines |-> <<>>]

\* C16 witness: user 1 downloads with an empty cart while user 2 holds both
\* recipes in the cart.
C16_Witness ==
    \E p \in Procs :
        LET r == reqs[p]
        IN  /\ r.op = "download_shopping_cart" /\ r.pc = "done"
            /\ r.user = 1
            /\ \A pk \in RecipeIds : shopping_cart[<<1, pk>>] = 0
            /\ shopping_cart[<<2, 1>>] = 1 /\ shopping_cart[<<2, 2>>] = 1
            /\ r.report.lines = <<>>

-----------------------------------------------------------------------------
(* C17 *)

\* C17: two answered buildShoppingList calls of the same user that read the
\* same carts, recipes and ingredient lines carry the same report, line for
\* line in the same order.
C17_ShoppingListDeterministic ==
    \A p, q \in Procs :
        LET a == reqs[p]
            b == reqs[q]
        IN  (/\ p # q
             /\ a.op = "download_shopping_cart" /\ a.pc = "done"
             /\ b.op = "download_shopping_cart" /\ b.pc = "done"
             /\ a.user = b.user /\ a.user # Anonymous
             /\ a.rel = b.rel /\ a.pre = b.pre) =>
                a.report = b.report

-----------------------------------------------------------------------------
(* C18 *)

\* C18: no Follow row from a user to that same user ever exists, and every
\* follow(user, user) call of an authenticated user is answered at once, with
\* the self-follow error and with no table changed.
C18_SelfFollowRejected ==
    /\ \A u \in Users : follows[<<u, u>>] = 0
    /\ \A p \in Procs :
          LET r == reqs[p]
          IN  (/\ r.op = "subscribe" /\ r.pc # "idle"
               /\ r.user # Anonymous /\ r.pk = r.user) =>
                  /\ r.pc = "done"
                  /\ r.response = "SelfFollow"
                  /\ Relations = r.rel

\* C18 witness: user 1 asked to follow user 1 while following user 2 and
\* being followed by user 2.
C18_Witness ==
    \E p \in Procs :
        LET r == reqs[p]
        IN  /\ r.op = "subscribe" /\ r.pc = "done"
            /\ r.user = 1 /\ r.pk = 1
            /\ r.response = "SelfFollow"
            /\ follows[<<1, 2>>] = 1 /\ follows[<<2, 1>>] = 1

-----------------------------------------------------------------------------
(* C19 *)

-----------------------------------------------------------------------------
(* C20 *)

C20_WitnessNotFollowing ==
    \E p \in Procs :
        LET r == reqs[p]
        IN  /\ r.op = "unsubscribe" /\ r.pc = "done"
            /\ r.user = 1 /\ r.pk = 2
            /\ r.response = "NotFollowing"
            /\ follows[<<2, 1>>] = 1

-----------------------------------------------------------------------------
(* C21 *)

\* C21: in every state that the membership and follow requests of two
\* workers reach, in any interleaving of their statements, the favorites
\* and the carts hold at most one row per (user, recipe), the subscriptions
\* hold at most one row per (user, following), and no subscription row has
\* its user as its following.
C21_RelationsUnique ==
    /\ \A x \in Pairs : favorites[x] <= 1 /\ shopping_cart[x] <= 1
    /\ \A x \in Users \X Users : follows[x] <= 1
    /\ \A u \in Users : follows[<<u, u>>] = 0

\* C21 witness: both workers answered a subscribe call of user 1 for user
\* 2 that arrived while the row was absent; the second insert was refused
\* by the constraint, and one row is stored.
C21_Witness ==
    /\ \A p \in Procs :
          /\ reqs[p].op = "subscribe" /\ reqs[p].pc = "done"
          /\ reqs[p].user = 1 /\ reqs[p].pk = 2
          /\ reqs[p].rel.follows[<<1, 2>>] = 0
    /\ \E p \in Procs : reqs[p].response = "StorageError"
    /\ follows[<<1, 2>>] = 1

-----------------------------------------------------------------------------
(* C22 *)

-----------------------------------------------------------------------------
(* C23 *)

\* C23: an answered update (PATCH or PUT) or delete call on a stored recipe,
\* made by an authenticated user who is not the recipe's author, answered
\* AuthorizationError, and the recipes, their tags and their ingredient
\* lines are as they were when the call arrived.
C23_NonAuthorRefused ==
    \A p \in Procs :
        LET r == reqs[p]
        IN  (/\ r.op \in {"partial_update", "update", "destroy"}
             /\ r.pc = "done"
             /\ r.user # Anonymous
             /\ r.pk \in DOMAIN r.pre.recipes
             /\ r.pre.recipes[r.pk].author # r.user) =>
                /\ r.response = "AuthorizationError"
                /\ Snapshot = r.pre

-----------------------------------------------------------------------------
(* C24 *)

\* The profiles an answered request rendered: the one of GET /users/{id}/,
\* or those of the page of GET /users/subscriptions/.
RenderedProfiles(r) ==
    IF r.pc = "done" /\ r.response = "OK" /\ r.op = "retrieve_user"
    THEN {r.profile}
    ELSE IF r.pc = "done" /\ r.response = "OK" /\ r.op = "subscriptions"
    THEN {r.profiles[k] : k \in DOMAIN r.profiles}
    ELSE {}

\* The recipes a user authored, in the store.
Authored(u) == {pk \in DOMAIN recipes : recipes[pk].author = u}

\* A recipes_limit that is the decimal text of an integer n >= 0.
ValidLimit(recipes_limit) ==
    /\ recipes_limit # None
    /\ recipes_limit[1][1] = "str"
    /\ recipes_limit[1][2] >= 0

\* C24: in every rendered profile recipes_count is the number of recipes
\* the profile's user authored, whatever recipes_limit is; with a valid
\* recipes_limit n the embedded list holds min(n, recipes_count) recipes,
\* all of them the user's; with no recipes_limit it holds all of them.
C24_ProfileRecipes ==
    \A p \in Procs : \A pf \in RenderedProfiles(reqs[p]) :
        LET recipes_limit == reqs[p].recipes_limit
            listed == {pf.recipes[k].id : k \in DOMAIN pf.recipes}
            count == Cardinality(Authored(pf.id))
        IN  /\ pf.recipes_count = count
            /\ ValidLimit(recipes_limit) =>
                  /\ Len(pf.recipes) =
                        IF recipes_limit[1][2] < count
                        THEN recipes_limit[1][2] ELSE count
                  /\ Cardinality(listed) = Len(pf.recipes)
                  /\ listed \subseteq Authored(pf.id)
            /\ recipes_limit = None =>
                  /\ Len(pf.recipes) = count
                  /\ listed = Authored(pf.id)

\* C24 witness: the profile of a user with two recipes was read with
\* recipes_limit=1: one recipe is embedded and recipes_count is 2.
C24_Witness ==
    \E p \in Procs :
        LET r == reqs[p]
        IN  /\ r.op = "retrieve_user" /\ r.pc = "done" /\ r.response = "OK"
            /\ r.recipes_limit = Some(Str(1))
            /\ Cardinality(Authored(r.pk)) = 2
            /\ r.profile.recipes_count = 2
            /\ Len(r.profile.recipes) = 1

\* C24 witness for the list of subscriptions: a followed user with two
\* recipes is listed with recipes_limit=3 and both recipes embedded.
C24_WitnessSubscriptions ==
    \E p \in Procs :
        LET r == reqs[p]
        IN  /\ r.op = "subscriptions" /\ r.pc = "done" /\ r.response = "OK"
            /\ r.recipes_limit = Some(Str(3))
            /\ Len(r.profiles) = 1
            /\ r.profiles[1].recipes_count = 2
            /\ Len(r.profiles[1].recipes) = 2

-----------------------------------------------------------------------------
(* C25 *)

\* C25, as stated: a request that renders a profile with a recipes_limit
\* that is not the text of an integer, or is the text of a negative one,
\* is answered, every profile in it embeds an empty recipe list, and
\* recipes_count is the number of recipes the profile's user authored.
C25_MalformedLimitGivesEmptyList ==
    \A p \in Procs :
        LET r == reqs[p]
        IN  (/\ r.op \in {"retrieve_user", "subscriptions"}
             /\ r.pc = "done"
             /\ r.response \notin {"Unauthorized", "NotFound"}
             /\ r.recipes_limit # None
             /\ ~ValidLimit(r.recipes_limit)) =>
                /\ r.response = "OK"
                /\ \A pf \in RenderedProfiles(r) :
                      /\ pf.recipes = <<>>
                      /\ pf.recipes_count = Cardinality(Authored(pf.id))

\* C25, amended: the same for a recipes_limit that is not empty; with an
\* empty recipes_limit the request is answered as without one, each
\* profile embedding every recipe of its user.
C25_NonEmptyMalformedLimitGivesEmptyList ==
    \A p \in Procs :
        LET r == reqs[p]
        IN  (/\ r.op \in {"retrieve_user", "subscriptions"}
             /\ r.pc = "done"
             /\ r.response \notin {"Unauthorized", "NotFound"}
             /\ r.recipes_limit # None
             /\ ~ValidLimit(r.recipes_limit)) =>
                /\ r.response = "OK"
                /\ \A pf \in RenderedProfiles(r) :
                      /\ pf.recipes_count = Cardinality(Authored(pf.id))
                      /\ IF r.recipes_limit = Some(Text(""))
                         THEN {pf.recipes[k].id : k \in DOMAIN pf.recipes}
                                 = Authored(pf.id)
                         ELSE pf.recipes = <<>>

\* C25 witness: the profile of a user with two recipes was read with
\* recipes_limit=abc: no recipe is embedded and recipes_count is 2.
C25_Witness ==
    \E p \in Procs :
        LET r == reqs[p]
        IN  /\ r.op = "retrieve_user" /\ r.pc = "done" /\ r.response = "OK"
            /\ r.recipes_limit = Some(Text("abc"))
            /\ Cardinality(Authored(r.pk)) = 2
            /\ r.profile.recipes = <<>>
            /\ r.profile.recipes_count = 2

\* C25 witness for a negative limit: the same with recipes_limit=-1.
C25_WitnessNegative ==
    \E p \in Procs :
        LET r == reqs[p]
        IN  /\ r.op = "retrieve_user" /\ r.pc = "done" /\ r.response = "OK"
            /\ r.recipes_limit = Some(Str(0 - 1))
            /\ Cardinality(Authored(r.pk)) = 2
            /\ r.profile.recipes = <<>>
            /\ r.profile.recipes_count = 2

-----------------------------------------------------------------------------
(* C26 *)

\* C26: when both workers have answered an updateRecipe (PATCH) call on the
\* same recipe, with valid payloads whose ingredient lines differ, neither
\* was answered with the storage's error and the recipe's stored lines are
\* exactly the lines of one of the two payloads.
C26_ConcurrentUpdatesSerialize ==
    \A p, q \in Procs :
        LET a == reqs[p]
            b == reqs[q]
        IN  (/\ p # q
             /\ a.op = "partial_update" /\ b.op = "partial_update"
             /\ a.pk = b.pk
             /\ a.pc = "done" /\ b.pc = "done"
             /\ a.response \notin {"Unauthorized", "NotFound",
                                   "ValidationError"}
             /\ b.response \notin {"Unauthorized", "NotFound",
                                   "ValidationError"}
             /\ InputLines(a.data) # InputLines(b.data)) =>
                /\ a.response # "StorageError"
                /\ b.response # "StorageError"
                /\ lines_of(recipe_ingredients, a.pk)
                       \in {InputLines(a.data), InputLines(b.data)}

-----------------------------------------------------------------------------
(* C27 *)

\* C27: an updateRecipe call (PATCH or PUT) that was answered with
\* ValidationError left the store as it was when the call arrived: every
\* recipe's scalar fields, its tags and its ingredient lines.
C27_RejectedUpdateChangesNothing ==
    \A p \in Procs :
        LET r == reqs[p]
        IN  (/\ r.op \in {"partial_update", "update"}
             /\ r.pc = "done"
             /\ r.response = "ValidationError") =>
                Snapshot = r.pre

\* C27 witness: a PATCH that carries a new cooking time, new tags and an
\* empty ingredient list was rejected, and recipe 1 reads as before.
C27_Witness ==
    \E p \in Procs :
        LET r == reqs[p]
        IN  /\ r.op = "partial_update" /\ r.pc = "done"
            /\ r.response = "ValidationError"
            /\ r.data.cooking_time = Some(MAX_AMOUNT)
            /\ r.data.tags = Some(<<Num(2)>>)
            /\ r.data.ingredients = Some(<<>>)
            /\ ReadNow(1) = [tags |-> {1}, ingredients |-> {<<1, 5>>, <<2, 5>>},
                             cooking_time |-> 5, author |-> 1]

-----------------------------------------------------------------------------
(* C28 *)

\* C28: in every step, a recipe that enters the store has the user of the
\* createRecipe call that inserts it as its author, and a recipe that stays
\* in the store keeps its author, whoever requests the update and whatever
\* author the payload names.
C28_AuthorNeverChanges ==
    [][/\ \A pk \in DOMAIN recipes' \ DOMAIN recipes :
             \E p \in Procs :
                 /\ reqs[p].op = "create" /\ reqs[p].pc = "create_recipe"
                 /\ recipes'[pk].author = reqs[p].user
       /\ \A pk \in DOMAIN recipes \cap DOMAIN recipes' :
             recipes'[pk].author = recipes[pk].author]_vars

\* C28 witness: user 2 updated (PATCH) a recipe of user 1 with a payload
\* whose author field names user 2; the call was answered OK and the
\* stored author is user 1.
C28_Witness ==
    \E p \in Procs :
        LET r == reqs[p]
        IN  /\ r.op = "partial_update" /\ r.pc = "done" /\ r.response = "OK"
            /\ r.user = 2
            /\ r.data.author = Some(2)
            /\ r.pre.recipes[r.pk].author = 1
            /\ recipes[r.pk].author = 1
            /\ r.body.author = 1

-----------------------------------------------------------------------------
(* C29 *)

\* C29: in every state each ingredient line, each favorite row and each
\* cart row refers to a stored recipe (a deleted recipe has lost all of
\* them), and the report of every answered buildShoppingList call sums,
\* for each of its entries, only lines of recipes that were stored and in
\* the user's cart when the report was read.
C29_DeleteCascades ==
    /\ \A x \in recipe_ingredients : x.recipe \in DOMAIN recipes
    /\ \A x \in Pairs :
          (favorites[x] > 0 \/ shopping_cart[x] > 0) =>
              x[2] \in DOMAIN recipes
    /\ \A p \in Procs :
          LET d == reqs[p]
              counted ==
                  {x \in d.pre.recipe_ingredients :
                      /\ x.recipe \in DOMAIN d.pre.recipes
                      /\ d.rel.shopping_cart[<<d.user, x.recipe>>] > 0}
              entries == d.report.lines
          IN  (/\ d.op = "download_shopping_cart" /\ d.pc = "done"
               /\ d.response = "OK") =>
                  /\ {<<entries[k][1], entries[k][3]>> : k \in DOMAIN entries}
                        = {NameUnit(x) : x \in counted}
                  /\ \A k \in DOMAIN entries :
                        entries[k][2] =
                            AmountsOf({x \in counted :
                                NameUnit(x) =
                                    <<entries[k][1], entries[k][3]>>})

\* C29 witness: user 2 deleted recipe 1 while user 1 held both recipes in
\* the cart; recipe 1 is gone with its lines and its cart row, and the
\* shopping list user 1 downloaded afterwards has the one line of recipe 2.
C29_Witness ==
    \E p, q \in Procs :
        LET r == reqs[p]
            d == reqs[q]
        IN  /\ r.op = "destroy" /\ r.pc = "done" /\ r.response = "NoContent"
            /\ r.pk = 1
            /\ r.rel.shopping_cart[<<1, 1>>] = 1
            /\ lines_of(r.pre.recipe_ingredients, 1) # {}
            /\ 1 \notin DOMAIN recipes
            /\ lines_of(recipe_ingredients, 1) = {}
            /\ shopping_cart[<<1, 1>>] = 0
            /\ shopping_cart[<<1, 2>>] = 1
            /\ d.op = "download_shopping_cart" /\ d.pc = "done"
            /\ d.user = 1
            /\ 1 \notin DOMAIN d.pre.recipes
            /\ d.report.lines = <<<<"Salt", 3, "g">>>>

\* C29 witness for the favorites: a recipe was deleted after user 1 made
\* it a favorite, and the favorite row is gone with it.
C29_WitnessFavorite ==
    \E p, q \in Procs :
        LET r == reqs[p]
            f == reqs[q]
        IN  /\ r.op = "destroy" /\ r.pc = "done" /\ r.response = "NoContent"
            /\ f.op = "favorite_post" /\ f.pc = "done"
            /\ f.response = "Created" /\ f.pk = r.pk
            /\ r.pk \notin DOMAIN recipes
            /\ favorites[<<f.user, f.pk>>] = 0

-----------------------------------------------------------------------------
(* C30 *)

\* The step of worker p that writes the row of a membership request.
MembershipWrite(p) ==
    /\ reqs[p].pc \in {"favorite_create", "favorite_destroy",
                       "shopping_cart_create", "shopping_cart_destroy"}
    /\ reqs'[p].pc = "done"

\* Every row of the table that is not a row of the user is the same before
\* and after the step.
OthersRowsKept(rows, rowsAfter, user) ==
    \A x \in Pairs : x[1] # user => rowsAfter[x] = rows[x]

\* C30: a step that writes for an addMembership or removeMembership call of
\* user A changes no row of another user and no row of the other relation;
\* and two answered buildShoppingList calls of user B, between which only
\* favorites and cart rows of other users changed, carry the same report.
C30_MembershipsIsolated ==
    /\ [][\A p \in Procs :
             MembershipWrite(p) =>
                 /\ OthersRowsKept(favorites, favorites', reqs[p].user)
                 /\ OthersRowsKept(shopping_cart, shopping_cart',
                                   reqs[p].user)
                 /\ reqs[p].pc \in {"favorite_create", "favorite_destroy"}
                       => shopping_cart' = shopping_cart
                 /\ reqs[p].pc \in {"shopping_cart_create",
                                    "shopping_cart_destroy"}
                       => favorites' = favorites]_vars
    /\ [](\A p, q \in Procs :
             LET a == reqs[p]
                 b == reqs[q]
             IN  (/\ p # q
                  /\ a.op = "download_shopping_cart" /\ a.pc = "done"
                  /\ b.op = "download_shopping_cart" /\ b.pc = "done"
                  /\ a.user = b.user /\ a.user # Anonymous
                  /\ a.pre = b.pre
                  /\ a.rel # b.rel
                  /\ \A pk \in RecipeIds :
                        a.rel.shopping_cart[<<a.user, pk>>] =
                            b.rel.shopping_cart[<<b.user, pk>>]) =>
                     a.report = b.report)

====
